---- MODULE Spec2Model ----
(***************************************************************************)
(* Model of the OOTS bridge end-to-end test tooling:                       *)
(*   - the mock EMREX provider (src/mocks/mock-emrex-provider.ts), an HTTP *)
(*     service with a process-wide (behavior, responseDelay) pair,         *)
(*   - the path-coverage test runner (the TypeScript program embedded in   *)
(*     src/scripts/upload-pmode.sh, lines 93-1088),                        *)
(*   - the field validators validateFields and getNestedValue              *)
(*     (src/scripts/validate.ts, lines 132-154), and                       *)
(*   - waitForResponse of the gateway scenario script                      *)
(*     (src/unnamed/part_005, lines 217-252).                              *)
(*                                                                         *)
(* Strings of the program are modelled as TLA+ strings when they are       *)
(* opaque (modes, session ids, return codes) and as sequences of tokens    *)
(* when the program looks inside them (URLs, which are searched and        *)
(* rewritten).  The JavaScript value undefined is NULL for opaque strings  *)
(* and the empty sequence for token strings.                               *)
(***************************************************************************)
EXTENDS Integers, Sequences, FiniteSets, TLC

VARIABLES
    behavior,        \* mock: let behavior: BehaviorMode
    responseDelay,   \* mock: let responseDelay (milliseconds)
    bridgeStoreUrl,  \* mock: const BRIDGE_STORE_URL, read from the environment
    up,              \* mock: the Node process is running
    inv,             \* mock: the /emrex request being served, or the last one served
    ctl,             \* mock: the last request to the control API and its answer
    main,            \* runner: main(), its position, loop index and results
    runs,            \* runner: the runTest call of each selected path
    call,            \* validators: the call of a pure function and its result
    wait             \* gateway scenarios: the call of waitForResponse

vars == <<behavior, responseDelay, bridgeStoreUrl, up, inv, ctl, main, runs, call, wait>>

\* the state of the mock EMREX provider
mockVars == <<behavior, responseDelay, bridgeStoreUrl, up, inv, ctl>>

\* the state of the test runner
runnerVars == <<main, runs>>

-----------------------------------------------------------------------------
(* Values *)

NULL == "<undefined>"

\* undefined, for a string that is modelled as a sequence of tokens
NoUrl == <<>>

NoElmo == <<>>

\* type BehaviorMode, and the validModes array of POST /test/behavior
validModes ==
    {"success", "error", "timeout", "no_records", "cancel",
     "invalid_gzip", "invalid_xml", "identity_mismatch"}

\* mode values a client may send: the known ones, an unknown one, none
ModeInputs == validModes \cup {"bogus", NULL}

\* response delays a client sets, in milliseconds
Delays == {0, 250}

\* delay values a client may send: a JSON number, or something that is not one
DelayInputs ==
    {[num |-> TRUE, val |-> d] : d \in Delays} \cup {[num |-> FALSE, val |-> 0]}

SessionIds == {"s1"}

LocalHttp == <<"http://", "localhost", ":3003", "/store">>

LocalHttps == <<"https://", "localhost", ":3443", "/store">>

RemoteUrl == <<"http://", "bridge.example", ":8080", "/store">>

\* a returnUrl in which the rewritten prefix occurs twice
NestedUrl ==
    <<"http://", "localhost", ":3003", "/store", "?next=", "http://", "localhost", ":3003">>

\* a returnUrl that is present but is no absolute URL
NotAUrl == <<"store">>

\* returnUrl values of a GET /emrex
ReturnUrls == {LocalHttp, LocalHttps, RemoteUrl, NestedUrl, NotAUrl}

\* returnUrl values of a POST /emrex
PostReturnUrls == {LocalHttp}

\* values of the environment variable BRIDGE_STORE_URL (unset: the default)
BridgeStoreUrls ==
    {LocalHttp,
     <<"https://", "bridge-proxy", ":443", "/store">>,
     <<"http://", "oots-bridge", ":3003", "/store">>}

\* HTTP statuses the callback target may answer with
StatusCodes == {200, 302, 500}

-----------------------------------------------------------------------------
(* String operations on token sequences *)

\* s has t at position i
MatchAt(s, t, i) ==
    /\ i + Len(t) - 1 <= Len(s)
    /\ \A k \in 1..Len(t) : s[i + k - 1] = t[k]

\* String.prototype.includes
Includes(s, t) == \E i \in 1..Len(s) : MatchAt(s, t, i)

\* String.prototype.replace with a string pattern: the first occurrence only
Replace(s, pat, rep) ==
    IF Includes(s, pat)
    THEN LET i == CHOOSE j \in 1..Len(s) :
                    /\ MatchAt(s, pat, j)
                    /\ \A k \in 1..(j - 1) : ~MatchAt(s, pat, k)
         IN SubSeq(s, 1, i - 1) \o rep \o SubSeq(s, i + Len(pat), Len(s))
    ELSE s

\* new URL(u) does not throw
UrlParses(u) == Len(u) >= 2 /\ u[1] \in {"http://", "https://"}

-----------------------------------------------------------------------------
(* Mock EMREX provider *)

rewriteUrlForDocker(url) ==
    IF Includes(bridgeStoreUrl, <<"bridge-proxy">>)
    THEN Replace(Replace(url, <<"http://", "localhost", ":3003">>,
                              <<"https://", "bridge-proxy", ":443">>),
                 <<"https://", "localhost", ":3443">>,
                 <<"https://", "bridge-proxy", ":443">>)
    ELSE IF Includes(bridgeStoreUrl, <<"oots-bridge">>)
         THEN Replace(url, <<"localhost", ":3003">>, <<"oots-bridge", ":3003">>)
         ELSE url

\* zlib.gzipSync(Buffer.from(doc)).toString('base64')
GzipBase64(doc) == <<"base64", "gzip", doc>>

\* Buffer.from(text).toString('base64')
PlainBase64(text) == <<"base64", text>>

\* the error case has lost its break and falls through to no_records
CallbackFields_Fallthrough(mode) ==
    CASE mode \in {"success"} ->
           [returnCode |-> "NCP_OK", elmo |-> GzipBase64("sampleElmo"), returnMessage |-> NULL]
      [] mode \in {"error", "no_records"} ->
           [returnCode |-> "NCP_NO_RESULTS", elmo |-> NoElmo,
            returnMessage |-> "No matching records found for this learner"]
      [] mode = "cancel" ->
           [returnCode |-> "NCP_CANCEL", elmo |-> NoElmo,
            returnMessage |-> "User cancelled the EMREX flow"]
      [] mode = "invalid_gzip" ->
           [returnCode |-> "NCP_OK", elmo |-> PlainBase64("this is not gzipped data"),
            returnMessage |-> NULL]
      [] mode = "invalid_xml" ->
           [returnCode |-> "NCP_OK", elmo |-> GzipBase64("invalidElmoXml"), returnMessage |-> NULL]
      [] mode = "identity_mismatch" ->
           [returnCode |-> "NCP_OK", elmo |-> GzipBase64("mismatchedIdentityElmo"),
            returnMessage |-> NULL]
      [] OTHER ->
           [returnCode |-> "NCP_OK", elmo |-> NoElmo, returnMessage |-> NULL]

\* the switch (behavior) of GET /emrex
CallbackFields(mode) ==
    CASE mode = "success" ->
           [returnCode |-> "NCP_OK", elmo |-> GzipBase64("sampleElmo"), returnMessage |-> NULL]
      [] mode = "error" ->
           [returnCode |-> "NCP_ERROR", elmo |-> NoElmo,
            returnMessage |-> "An error occurred at the EMREX provider"]
      [] mode = "no_records" ->
           [returnCode |-> "NCP_NO_RESULTS", elmo |-> NoElmo,
            returnMessage |-> "No matching records found for this learner"]
      [] mode = "cancel" ->
           [returnCode |-> "NCP_CANCEL", elmo |-> NoElmo,
            returnMessage |-> "User cancelled the EMREX flow"]
      [] mode = "invalid_gzip" ->
           [returnCode |-> "NCP_OK", elmo |-> PlainBase64("this is not gzipped data"),
            returnMessage |-> NULL]
      [] mode = "invalid_xml" ->
           [returnCode |-> "NCP_OK", elmo |-> GzipBase64("invalidElmoXml"), returnMessage |-> NULL]
      [] mode = "identity_mismatch" ->
           [returnCode |-> "NCP_OK", elmo |-> GzipBase64("mismatchedIdentityElmo"),
            returnMessage |-> NULL]
      [] OTHER ->
           [returnCode |-> "NCP_OK", elmo |-> NoElmo, returnMessage |-> NULL]

\* the request that httpPost writes to targetUrl; behavior is the mode the
\* emrex_response_sending log record reports with it
CallbackBody(sessionId, mode, targetUrl) ==
    LET f == CallbackFields(mode)
    IN [url |-> targetUrl, sessionId |-> sessionId, returnCode |-> f.returnCode,
        elmo |-> f.elmo, returnMessage |-> f.returnMessage, behavior |-> mode]

\* no /emrex request has been received yet.
\*   missing   the request lacked sessionId or returnUrl
\*   posts     the outbound requests written and not yet answered
\*   nPosts    the number of outbound requests written so far
\*   cbStatus  the status the callback target answered with (0: no answer)
\*   outcome   event.outcome of the emrex_response_sent/_failed log record
\*   reply     the status of the answer of the GET handler (0: no answer)
NoInvocation ==
    [phase |-> "none", via |-> NULL, missing |-> FALSE, sessionId |-> NULL,
     returnUrl |-> NoUrl, posts |-> <<>>, nPosts |-> 0, cbStatus |-> 0,
     outcome |-> "none", reply |-> 0]

\* httpPost without its req.on('error') listener
httpPostOnError_Unhandled == "throw"

\* httpPost, what it does with an 'error' event of the request
httpPostOnError == "reject"

\* only the 2xx statuses count as success
SentOutcome_2xxOnly(status) == IF status >= 200 /\ status < 300 THEN "success" ELSE "failure"

\* the event.outcome of the emrex_response_sent log record
SentOutcome(status) == IF status >= 200 /\ status < 400 THEN "success" ELSE "failure"

\* the callback goes to returnUrl as received, the Docker rewrite is left out
Respond_Unrewritten(r) ==
    LET targetUrl == r.returnUrl
    IN IF UrlParses(targetUrl)
       THEN [r EXCEPT !.phase = "posting",
                      !.posts = Append(@, CallbackBody(r.sessionId, behavior, targetUrl)),
                      !.nPosts = @ + 1]
       ELSE [r EXCEPT !.phase = "replied", !.outcome = "failure", !.reply = 500]

\* GET /emrex from the switch on: build the callback and hand it to httpPost
Respond(r) ==
    LET targetUrl == rewriteUrlForDocker(r.returnUrl)
    IN IF UrlParses(targetUrl)
       THEN [r EXCEPT !.phase = "posting",
                      !.posts = Append(@, CallbackBody(r.sessionId, behavior, targetUrl)),
                      !.nPosts = @ + 1]
       ELSE \* new URL throws in the promise executor: the catch block runs
            [r EXCEPT !.phase = "replied", !.outcome = "failure", !.reply = 500]

\* the timeout test comes after the delay instead of before it
HandleGet_TimeoutAfterDelay(r) ==
    IF r.sessionId = NULL \/ r.returnUrl = NoUrl
    THEN [r EXCEPT !.phase = "replied", !.reply = 400]
    ELSE IF responseDelay > 0
         THEN [r EXCEPT !.phase = "sleeping"]
         ELSE IF behavior = "timeout"
              THEN [r EXCEPT !.phase = "hung"]
              ELSE Respond(r)

\* the timeout test comes before the test of the parameters
HandleGet_TimeoutFirst(r) ==
    IF behavior = "timeout"
    THEN [r EXCEPT !.phase = "hung"]
    ELSE IF r.sessionId = NULL \/ r.returnUrl = NoUrl
         THEN [r EXCEPT !.phase = "replied", !.reply = 400]
         ELSE IF responseDelay > 0
              THEN [r EXCEPT !.phase = "sleeping"]
              ELSE Respond(r)

\* GET /emrex up to its first suspension point
HandleGet(r) ==
    IF r.sessionId = NULL \/ r.returnUrl = NoUrl
    THEN [r EXCEPT !.phase = "replied", !.reply = 400]
    ELSE IF behavior = "timeout"
         THEN [r EXCEPT !.phase = "hung"]
         ELSE IF responseDelay > 0
              THEN [r EXCEPT !.phase = "sleeping"]
              ELSE Respond(r)

\* the client sends its next /emrex request when the last one has been answered
Idle == inv.phase \in {"none", "replied"}

\* app.get('/emrex')
GetEmrex(sessionId, returnUrl) ==
    /\ up
    /\ Idle
    /\ inv' =
          HandleGet([NoInvocation EXCEPT
                       !.via = "GET",
                       !.missing = (sessionId = NULL \/ returnUrl = NoUrl),
                       !.sessionId = sessionId,
                       !.returnUrl = returnUrl])
    /\ UNCHANGED <<behavior, responseDelay, bridgeStoreUrl, up, ctl>>

\* `${value}` of a template literal
Interpolate(s) == IF s = NULL THEN "undefined" ELSE s

\* encodeURIComponent(value), as the query-string parser of the injected
\* request decodes it again
InterpolateUrl(u) == IF u = NoUrl THEN <<"undefined">> ELSE u

\* app.post('/emrex') with a body: the request is replayed as a GET through
\* app.inject; reply is the answer of that GET
PostEmrex(sessionId, stateId, returnUrl) ==
    /\ up
    /\ Idle
    /\ LET sid == IF sessionId # NULL THEN sessionId ELSE stateId
       IN inv' =
            HandleGet([NoInvocation EXCEPT
                         !.via = "POST",
                         !.missing = (sid = NULL \/ returnUrl = NoUrl),
                         !.sessionId = Interpolate(sid),
                         !.returnUrl = InterpolateUrl(returnUrl)])
    /\ UNCHANGED <<behavior, responseDelay, bridgeStoreUrl, up, ctl>>

\* app.post('/emrex') without a body: body.sessionId throws, nothing is
\* injected and Fastify answers 500
PostEmrexNoBody ==
    /\ up
    /\ Idle
    /\ inv' =
          [NoInvocation EXCEPT !.phase = "replied", !.via = "POST",
                               !.missing = TRUE, !.reply = 500]
    /\ UNCHANGED <<behavior, responseDelay, bridgeStoreUrl, up, ctl>>

\* the delay is used up by the request that slept through it
DelayElapsed_ResetsDelay ==
    /\ up
    /\ inv.phase = "sleeping"
    /\ inv' = Respond(inv)
    /\ responseDelay' = 0
    /\ UNCHANGED <<behavior, bridgeStoreUrl, up, ctl>>

\* GET /emrex: the setTimeout of the response delay fires
DelayElapsed ==
    /\ up
    /\ inv.phase = "sleeping"
    /\ inv' = Respond(inv)
    /\ UNCHANGED <<behavior, responseDelay, bridgeStoreUrl, up, ctl>>

\* httpPost resolves: the callback target has answered
CallbackAnswered(status) ==
    /\ up
    /\ inv.phase = "posting"
    /\ inv' =
          [inv EXCEPT !.phase = "replied", !.posts = <<>>, !.cbStatus = status,
                      !.outcome = SentOutcome(status), !.reply = 200]
    /\ UNCHANGED <<behavior, responseDelay, bridgeStoreUrl, up, ctl>>

\* the request of httpPost emits 'error': the promise is rejected and the
\* catch block answers 500; an 'error' event nobody listens to ends the process
CallbackFailed ==
    /\ up
    /\ inv.phase = "posting"
    /\ IF httpPostOnError = "reject"
       THEN /\ inv' = [inv EXCEPT !.phase = "replied", !.posts = <<>>,
                                   !.outcome = "failure", !.reply = 500]
            /\ up' = up
       ELSE /\ up' = FALSE
            /\ inv' = inv
    /\ UNCHANGED <<behavior, responseDelay, bridgeStoreUrl, ctl>>

\* the answer is built before the assignments
SetBehavior_StaleAnswer(mode, delay) ==
    /\ up
    /\ behavior' = IF mode # NULL /\ mode \in validModes THEN mode ELSE behavior
    /\ responseDelay' = IF delay.num THEN delay.val ELSE responseDelay
    /\ ctl' = [op |-> "setBehavior", mode |-> mode, delay |-> delay, status |-> 200,
               behavior |-> behavior, responseDelay |-> responseDelay]
    /\ UNCHANGED <<bridgeStoreUrl, up, inv>>

\* the mode is assigned without the validModes test
SetBehavior_Unvalidated(mode, delay) ==
    /\ up
    /\ behavior' = IF mode # NULL THEN mode ELSE behavior
    /\ responseDelay' = IF delay.num THEN delay.val ELSE responseDelay
    /\ ctl' = [op |-> "setBehavior", mode |-> mode, delay |-> delay, status |-> 200,
               behavior |-> behavior', responseDelay |-> responseDelay']
    /\ UNCHANGED <<bridgeStoreUrl, up, inv>>

\* the mode of the body is assigned as it comes, tested neither for being
\* there nor for being known
SetBehavior_ModeFromBody(mode, delay) ==
    /\ up
    /\ behavior' = mode
    /\ responseDelay' = IF delay.num THEN delay.val ELSE responseDelay
    /\ ctl' = [op |-> "setBehavior", mode |-> mode, delay |-> delay, status |-> 200,
               behavior |-> behavior', responseDelay |-> responseDelay']
    /\ UNCHANGED <<bridgeStoreUrl, up, inv>>

\* a request whose mode is not a known one is ignored as a whole, and a
\* request without a numeric delay sets the delay back to 0
SetBehavior_AllOrNothing(mode, delay) ==
    LET known == mode # NULL /\ mode \in validModes
    IN /\ up
       /\ behavior' = IF known THEN mode ELSE behavior
       /\ responseDelay' = IF ~known THEN responseDelay
                           ELSE IF delay.num THEN delay.val ELSE 0
       /\ ctl' = [op |-> "setBehavior", mode |-> mode, delay |-> delay, status |-> 200,
                  behavior |-> behavior', responseDelay |-> responseDelay']
       /\ UNCHANGED <<bridgeStoreUrl, up, inv>>

\* app.post('/test/behavior')
SetBehavior(mode, delay) ==
    /\ up
    /\ behavior' = IF mode # NULL /\ mode \in validModes THEN mode ELSE behavior
    /\ responseDelay' = IF delay.num THEN delay.val ELSE responseDelay
    /\ ctl' = [op |-> "setBehavior", mode |-> mode, delay |-> delay, status |-> 200,
               behavior |-> behavior', responseDelay |-> responseDelay']
    /\ UNCHANGED <<bridgeStoreUrl, up, inv>>

\* a request body without a numeric delay
NoDelay == [num |-> FALSE, val |-> 0]

\* app.get('/test/config')
GetConfig ==
    /\ up
    /\ ctl' = [op |-> "getConfig", mode |-> NULL, delay |-> NoDelay, status |-> 200,
               behavior |-> behavior, responseDelay |-> responseDelay]
    /\ UNCHANGED <<behavior, responseDelay, bridgeStoreUrl, up, inv>>

\* app.get('/health')
Health ==
    /\ up
    /\ ctl' = [op |-> "health", mode |-> NULL, delay |-> NoDelay, status |-> 200,
               behavior |-> behavior, responseDelay |-> responseDelay]
    /\ UNCHANGED <<behavior, responseDelay, bridgeStoreUrl, up, inv>>

\* the module's top level has run and start() has bound the port
InitMock ==
    /\ behavior = "success"
    /\ responseDelay = 0
    /\ bridgeStoreUrl \in BridgeStoreUrls
    /\ up = TRUE
    /\ inv = NoInvocation
    /\ ctl = [op |-> "none", mode |-> NULL, delay |-> NoDelay, status |-> 0,
              behavior |-> "success", responseDelay |-> 0]

-----------------------------------------------------------------------------
(* The path-coverage test runner: the catalog *)

\* an entry of expectedLogs; logger and outcome are NULL when left out
ExpectedLog(eventAction, logger, outcome) ==
    [eventAction |-> eventAction, logger |-> logger, outcome |-> outcome,
     requiredFields |-> <<>>, optional |-> FALSE]

\* an entry of expectedLogs with optional: true
OptionalLog(eventAction, logger, outcome) ==
    [ExpectedLog(eventAction, logger, outcome) EXCEPT !.optional = TRUE]

\* an entry of expectedLogs with requiredFields
LogWithFields(eventAction, logger, outcome, requiredFields) ==
    [ExpectedLog(eventAction, logger, outcome) EXCEPT !.requiredFields = requiredFields]

\* the awaited calls of the trigger functions, in the order they are made
SubmitToDomibus == [op |-> "submitToDomibus", mode |-> NULL, ms |-> 0]
SleepBeforeCallback == [op |-> "sleep", mode |-> NULL, ms |-> 8000]
SimulateEmrexCallback == [op |-> "simulateEmrexCallback", mode |-> NULL, ms |-> 0]
SetMockEmrexBehavior(mode) == [op |-> "setMockEmrexBehavior", mode |-> mode, ms |-> 0]

\* trigger of paths 1 and 12
TriggerSubmitOnly == <<SubmitToDomibus>>

\* trigger of path 2
TriggerWithCallback == <<SubmitToDomibus, SleepBeforeCallback, SimulateEmrexCallback>>

\* trigger of paths 6 to 11
TriggerWithMode(mode) ==
    <<SetMockEmrexBehavior(mode), SubmitToDomibus, SleepBeforeCallback,
      SimulateEmrexCallback>>

\* expectedLogs of paths 7 and 8
ExpectedProviderFailure ==
    <<ExpectedLog("evidence_request_received", NULL, NULL),
      ExpectedLog("emrex_response_received", "EXT", NULL),
      ExpectedLog("evidence_response_sent", NULL, "failure")>>

\* const testPaths: the catalog, in its order
testPaths ==
    <<[id |-> 1, emrexBehavior |-> NULL,
       expectedLogs |->
         <<ExpectedLog("domibus_message_retrieval_started", "APP", "success"),
           ExpectedLog("domibus_message_retrieval_completed", "APP", "success"),
           ExpectedLog("oots_request_xml_validation_completed", "APP", "success"),
           ExpectedLog("oots_request_schematron_validation_completed", "APP", "success"),
           LogWithFields("evidence_request_received", NULL, "success",
                         <<<<"oots", "message", "id">>, <<"oots", "conversation", "id">>>>),
           LogWithFields("evidence_response_sent", NULL, NULL, <<<<"oots", "response", "result">>>>),
           ExpectedLog("domibus_message_submission_started", "APP", NULL),
           ExpectedLog("domibus_message_submission_completed", "APP", "success"),
           ExpectedLog("message_processing_completed", "APP", "success")>>,
       trigger |-> TriggerSubmitOnly, waitTime |-> 20000],
      [id |-> 2, emrexBehavior |-> "success",
       expectedLogs |->
         <<ExpectedLog("domibus_message_retrieval_started", "APP", NULL),
           ExpectedLog("domibus_message_retrieval_completed", "APP", "success"),
           ExpectedLog("oots_request_xml_validation_completed", "APP", "success"),
           ExpectedLog("oots_request_schematron_validation_completed", "APP", "success"),
           ExpectedLog("evidence_request_received", NULL, NULL),
           ExpectedLog("user_redirected_to_emrex", "EXT", "success"),
           ExpectedLog("emrex_response_received", "EXT", "success"),
           OptionalLog("emrex_xml_validation_completed", "APP", "success"),
           OptionalLog("elm_converter_request_sent", "EXT", NULL),
           OptionalLog("elm_converter_request_completed", "EXT", NULL),
           ExpectedLog("evidence_response_sent", NULL, NULL),
           ExpectedLog("domibus_message_submission_completed", "APP", "success")>>,
       trigger |-> TriggerWithCallback, waitTime |-> 30000],
      [id |-> 6, emrexBehavior |-> "cancel",
       expectedLogs |->
         <<ExpectedLog("evidence_request_received", NULL, NULL),
           ExpectedLog("user_redirected_to_emrex", "EXT", "success"),
           ExpectedLog("emrex_response_received", "EXT", NULL),
           ExpectedLog("evidence_response_sent", NULL, "failure")>>,
       trigger |-> TriggerWithMode("cancel"), waitTime |-> 25000],
      [id |-> 7, emrexBehavior |-> "error",
       expectedLogs |-> ExpectedProviderFailure,
       trigger |-> TriggerWithMode("error"), waitTime |-> 25000],
      [id |-> 8, emrexBehavior |-> "no_records",
       expectedLogs |-> ExpectedProviderFailure,
       trigger |-> TriggerWithMode("no_records"), waitTime |-> 25000],
      [id |-> 9, emrexBehavior |-> "invalid_gzip",
       expectedLogs |->
         <<ExpectedLog("evidence_request_received", NULL, NULL),
           ExpectedLog("emrex_response_received", "EXT", NULL),
           OptionalLog("emrex_decompression_failed", "APP", "failure"),
           ExpectedLog("evidence_response_sent", NULL, "failure")>>,
       trigger |-> TriggerWithMode("invalid_gzip"), waitTime |-> 25000],
      [id |-> 10, emrexBehavior |-> "invalid_xml",
       expectedLogs |->
         <<ExpectedLog("evidence_request_received", NULL, NULL),
           ExpectedLog("emrex_response_received", "EXT", NULL),
           ExpectedLog("emrex_xml_validation_completed", "APP", "failure"),
           ExpectedLog("evidence_response_sent", NULL, "failure")>>,
       trigger |-> TriggerWithMode("invalid_xml"), waitTime |-> 25000],
      [id |-> 11, emrexBehavior |-> "identity_mismatch",
       expectedLogs |->
         <<ExpectedLog("evidence_request_received", NULL, NULL),
           ExpectedLog("emrex_response_received", "EXT", NULL),
           ExpectedLog("emrex_identity_matching_completed", "APP", "failure"),
           ExpectedLog("evidence_response_sent", NULL, "failure")>>,
       trigger |-> TriggerWithMode("identity_mismatch"), waitTime |-> 25000],
      [id |-> 12, emrexBehavior |-> NULL,
       expectedLogs |->
         <<ExpectedLog("evidence_request_received", NULL, NULL),
           ExpectedLog("user_redirected_to_emrex", "EXT", "success"),
           OptionalLog("session_timeout", "APP", NULL)>>,
       trigger |-> TriggerSubmitOnly, waitTime |-> 15000]>>

\* the catalog entry with the given id
PathById(id) == CHOOSE p \in {testPaths[n] : n \in DOMAIN testPaths} : p.id = id

-----------------------------------------------------------------------------
(* JavaScript values, as the validators see them *)

\* A value is a record [t, v]: t is its type and v its content.  An object
\* keeps its own properties in insertion order, as a sequence of entries
\* [k, x] with distinct keys.  A dotted path such as "a.b.c" is the sequence
\* of its segments, so that path.split('.') is the path itself.

Undefined == [t |-> "undefined", v |-> <<>>]

Null == [t |-> "null", v |-> <<>>]

\* the string s
Str(s) == [t |-> "string", v |-> <<s>>]

\* the number whose decimal notation is digits
Num(digits) == [t |-> "number", v |-> <<digits>>]

\* the object with the given entries
Obj(entries) == [t |-> "object", v |-> entries]

\* a property of an object
Entry(k, x) == [k |-> k, x |-> x]

\* the own property names of a value
OwnKeys(o) == IF o.t = "object" THEN {o.v[i].k : i \in DOMAIN o.v} ELSE {}

\* o[k] for a value that is neither null nor undefined: the own property,
\* and undefined when there is none
Get(o, k) ==
    IF k \in OwnKeys(o)
    THEN o.v[CHOOSE i \in DOMAIN o.v : o.v[i].k = k].x
    ELSE Undefined

\* o[k] where o is null or undefined throws a TypeError
Lookup_NoOptionalChaining(o, k) ==
    IF o.t \in {"undefined", "null", "TypeError"}
    THEN [t |-> "TypeError", v |-> <<>>]
    ELSE Get(o, k)

\* o?.[k]
Lookup(o, k) == IF o.t \in {"undefined", "null"} THEN Undefined ELSE Get(o, k)

\* path.split('.').reduce((o, k) => o?.[k], obj)
RECURSIVE getNestedValue(_, _)
getNestedValue(obj, path) ==
    IF Len(path) = 0
    THEN obj
    ELSE getNestedValue(Lookup(obj, Head(path)), Tail(path))

\* JSON.stringify(value) for a value other than undefined, as the sequence of
\* the tokens it writes: the entries of an object in insertion order, those
\* with an undefined value left out
RECURSIVE Stringify(_)
RECURSIVE StringifyEntries(_, _)
StringifyEntries(entries, first) ==
    IF Len(entries) = 0
    THEN <<>>
    ELSE LET e == Head(entries)
         IN IF e.x.t = "undefined"
            THEN StringifyEntries(Tail(entries), first)
            ELSE (IF first THEN <<>> ELSE <<",">>)
                 \o <<e.k, ":">> \o Stringify(e.x)
                 \o StringifyEntries(Tail(entries), FALSE)

Stringify(value) ==
    CASE value.t = "null" -> <<"null">>
      [] value.t = "number" -> value.v
      [] value.t = "string" -> <<"\"">> \o value.v \o <<"\"">>
      [] value.t = "object" -> <<"{">> \o StringifyEntries(value.v, TRUE) \o <<"}">>

-----------------------------------------------------------------------------
(* validateFields and the calls of the validators *)

\* what JSON.stringify(value) puts into an error message
Shown(value) == IF value.t = "undefined" THEN <<"undefined">> ELSE Stringify(value)

\* an element of the errors of validateFields
FieldError(path, kind, expectedValue, actualValue) ==
    [path |-> path, kind |-> kind, expected |-> Shown(expectedValue),
     got |-> Shown(actualValue)]

\* the field counts as absent when it is null as well
ValidateEntry_NullIsAbsent(doc, path, expectedValue) ==
    LET actualValue == getNestedValue(doc, path)
    IN IF expectedValue.t = "undefined"
       THEN IF actualValue.t \notin {"undefined", "null"}
            THEN <<FieldError(path, "expected undefined", expectedValue, actualValue)>>
            ELSE <<>>
       ELSE IF actualValue.t = "undefined"
            THEN <<FieldError(path, "missing", expectedValue, actualValue)>>
            ELSE IF Stringify(actualValue) # Stringify(expectedValue)
                 THEN <<FieldError(path, "expected", expectedValue, actualValue)>>
                 ELSE <<>>

\* validateFields: the body of its loop, the errors pushed for one entry
ValidateEntry(doc, path, expectedValue) ==
    LET actualValue == getNestedValue(doc, path)
    IN IF expectedValue.t = "undefined"
       THEN IF actualValue.t # "undefined"
            THEN <<FieldError(path, "expected undefined", expectedValue, actualValue)>>
            ELSE <<>>
       ELSE IF actualValue.t = "undefined"
            THEN <<FieldError(path, "missing", expectedValue, actualValue)>>
            ELSE IF Stringify(actualValue) # Stringify(expectedValue)
                 THEN <<FieldError(path, "expected", expectedValue, actualValue)>>
                 ELSE <<>>

\* validateFields(doc, expected); expected is Object.entries(expected), a
\* sequence of [path, value] with distinct paths
RECURSIVE validateFields(_, _)
validateFields(doc, expected) ==
    IF Len(expected) = 0
    THEN <<>>
    ELSE ValidateEntry(doc, Head(expected).path, Head(expected).value)
         \o validateFields(doc, Tail(expected))

\* no validator has been called
NoCall ==
    [fn |-> "none", doc |-> Undefined, path |-> <<>>, expected |-> <<>>,
     value |-> Undefined, errors |-> <<>>,
     logs |-> <<>>, expectedLogs |-> <<>>,
     validation |-> [found |-> <<>>, errors |-> <<>>]]

\* the longest path getNestedValue is called with
MaxPathLen == 3

\* the property names of the documents
Keys == {"a", "b"}

\* the segments of the paths
PathKeys == {"a", "b", "c"}

\* the objects with at most two properties, named by Keys, with values in V
ObjectsOver(V) ==
    {Obj(<<>>)}
    \cup {Obj(<<Entry(k, x)>>) : k \in Keys, x \in V}
    \cup {Obj(<<Entry(k[1], x), Entry(k[2], y)>>) :
             k \in {kk \in Keys \X Keys : kk[1] # kk[2]}, x \in V, y \in V}

\* the documents getNestedValue is called with: JSON objects two levels
\* deep, the two objects of the examples, and no document at all
NestedDocs ==
    ObjectsOver({Null, Num("1")} \cup ObjectsOver({Null, Num("1")}))
    \cup {Obj(<<Entry("a", Obj(<<Entry("b", Obj(<<Entry("c", Num("1"))>>))>>))>>),
          Null, Undefined}

\* the paths getNestedValue is called with
Paths == UNION {[1..n -> PathKeys] : n \in 1..MaxPathLen}

\* the values of the fields of the documents validateFields is called with;
\* two of them are the same object with its properties in different orders
FieldValues ==
    {Null, Num("1"), Str("x"),
     Obj(<<Entry("a", Num("1")), Entry("b", Str("x"))>>),
     Obj(<<Entry("b", Str("x")), Entry("a", Num("1"))>>)}

\* the documents validateFields is called with
FieldDocs == ObjectsOver(FieldValues)

\* the paths of the expectation maps
ExpectedPaths == {<<"a">>, <<"b">>, <<"a", "b">>}

\* the values of the expectation maps
ExpectedValues ==
    {Undefined, Num("1"), Str("x"),
     Obj(<<Entry("a", Num("1")), Entry("b", Str("x"))>>)}

\* an entry of Object.entries(expected)
Expectation(path, value) == [path |-> path, value |-> value]

\* the expectation maps: empty, one entry, two entries with different paths
ExpectedMaps ==
    {<<>>}
    \cup {<<Expectation(p, x)>> : p \in ExpectedPaths, x \in ExpectedValues}
    \cup {<<Expectation(p[1], x), Expectation(p[2], y)>> :
             p \in {pp \in ExpectedPaths \X ExpectedPaths : pp[1] # pp[2]},
             x \in ExpectedValues, y \in ExpectedValues}

\* a call of getNestedValue(obj, path)
CallGetNestedValue(obj, path) ==
    /\ call = NoCall
    /\ call' = [NoCall EXCEPT !.fn = "getNestedValue", !.doc = obj, !.path = path,
                              !.value = getNestedValue(obj, path)]
    /\ UNCHANGED <<mockVars, runnerVars, wait>>

\* a call of validateFields(doc, expected)
CallValidateFields(doc, expected) ==
    /\ call = NoCall
    /\ call' = [NoCall EXCEPT !.fn = "validateFields", !.doc = doc,
                              !.expected = expected,
                              !.errors = validateFields(doc, expected)]
    /\ UNCHANGED <<mockVars, runnerVars, wait>>

\* the caller has taken the result of the call
CallReturned ==
    /\ call # NoCall
    /\ call' = NoCall
    /\ UNCHANGED <<mockVars, runnerVars, wait>>

-----------------------------------------------------------------------------
(* The path-coverage test runner: logs and their validation *)

\* A log is the _source of a hit of Elasticsearch, a JavaScript object.  The
\* required fields of the catalog are dotted paths, kept as their segments.

\* a log matches when its event.action is the expected one
LogMatches_ActionOnly(log, exp) ==
    getNestedValue(log, <<"event", "action">>) = Str(exp.eventAction)

\* the callback of logs.find in validateLogs
LogMatches(log, exp) ==
    /\ getNestedValue(log, <<"event", "action">>) = Str(exp.eventAction)
    /\ exp.logger # NULL => getNestedValue(log, <<"log", "logger">>) = Str(exp.logger)
    /\ exp.outcome # NULL => getNestedValue(log, <<"event", "outcome">>) = Str(exp.outcome)

\* the smallest element of a non-empty set of numbers
Least(S) == CHOOSE n \in S : \A m \in S : n <= m

\* the entries validateLogs pushes to errors for one expected log
MissingFields(matchingLog, exp) ==
    LET absent == SelectSeq(exp.requiredFields,
                            LAMBDA f : getNestedValue(matchingLog, f) = Undefined)
    IN [j \in 1..Len(absent) |->
          [kind |-> "missing required field", eventAction |-> exp.eventAction,
           field |-> absent[j]]]

\* the n-th expected log is looked for at the n-th place of the logs only
RECURSIVE ValidateFrom_Positional(_, _, _)
ValidateFrom_Positional(logs, expected, n) ==
    IF n > Len(expected)
    THEN [found |-> <<>>, errors |-> <<>>]
    ELSE LET exp == expected[n]
             hits == {i \in DOMAIN logs \cap {n} : LogMatches(logs[i], exp)}
             rest == ValidateFrom_Positional(logs, expected, n + 1)
         IN IF hits # {}
            THEN [found |-> <<exp.eventAction>> \o rest.found,
                  errors |-> MissingFields(logs[Least(hits)], exp) \o rest.errors]
            ELSE IF ~exp.optional
                 THEN [found |-> rest.found,
                       errors |-> <<[kind |-> "Missing log", eventAction |-> exp.eventAction,
                                     field |-> <<>>]>> \o rest.errors]
                 ELSE rest

\* validateLogs, its loop from the n-th expected log on
RECURSIVE ValidateFrom(_, _, _)
ValidateFrom(logs, expected, n) ==
    IF n > Len(expected)
    THEN [found |-> <<>>, errors |-> <<>>]
    ELSE LET exp == expected[n]
             hits == {i \in DOMAIN logs : LogMatches(logs[i], exp)}
             rest == ValidateFrom(logs, expected, n + 1)
         IN IF hits # {}
            THEN [found |-> <<exp.eventAction>> \o rest.found,
                  errors |-> MissingFields(logs[Least(hits)], exp) \o rest.errors]
            ELSE IF ~exp.optional
                 THEN [found |-> rest.found,
                       errors |-> <<[kind |-> "Missing log", eventAction |-> exp.eventAction,
                                     field |-> <<>>]>> \o rest.errors]
                 ELSE rest

\* validateLogs(logs, expected)
validateLogs(logs, expected) == ValidateFrom(logs, expected, 1)

\* the object o with its property k set to x
PutKey(o, k, x) ==
    IF k \in OwnKeys(o)
    THEN Obj([i \in DOMAIN o.v |-> IF o.v[i].k = k THEN Entry(k, x) ELSE o.v[i]])
    ELSE Obj(Append(o.v, Entry(k, x)))

\* the object o with the value x at the path, the objects on the way created
RECURSIVE SetPath(_, _, _)
SetPath(o, path, x) ==
    IF Len(path) = 0
    THEN x
    ELSE LET k == Head(path)
             child == IF k \in OwnKeys(o) THEN Get(o, k) ELSE Obj(<<>>)
         IN PutKey(o, k, SetPath(child, Tail(path), x))

\* the object o with a value at each of the paths
RECURSIVE SetPaths(_, _)
SetPaths(o, paths) ==
    IF Len(paths) = 0
    THEN o
    ELSE SetPaths(SetPath(o, Head(paths), Str("value")), Tail(paths))

\* a log that matches the expected log, with every required field or none
LogFor(exp, withFields) ==
    SetPaths(
        Obj(<<Entry("event",
                    Obj(<<Entry("action", Str(exp.eventAction)),
                          Entry("outcome", Str(IF exp.outcome # NULL THEN exp.outcome
                                               ELSE "success"))>>)),
              Entry("log",
                    Obj(<<Entry("logger", Str(IF exp.logger # NULL THEN exp.logger
                                              ELSE "APP"))>>))>>),
        IF withFields THEN exp.requiredFields ELSE <<>>)

\* a log for each expected log, in order
LogsFor(expected, withFields) ==
    [n \in DOMAIN expected |-> LogFor(expected[n], withFields)]

\* what Elasticsearch may hold for a conversation: nothing, a log for every
\* expected log, the same without the required fields, all but the last log
LogBatches(expected) ==
    {<<>>, LogsFor(expected, TRUE), LogsFor(expected, FALSE),
     SubSeq(LogsFor(expected, TRUE), 1, Len(expected) - 1)}

\* the log with the conversation id the Bridge wrote it for
InConversation(log, conversationId) ==
    SetPath(log, <<"oots", "conversation", "id">>, Str(conversationId))

\* what Elasticsearch may hold for one event action after the trigger: no
\* log, or a log of one of the conversations
ActionBatches(exp, conversationIds) ==
    {<<>>} \cup {<<InConversation(LogFor(exp, TRUE), c)>> : c \in conversationIds}

\* the time an Elasticsearch query may take, in milliseconds
QueryDurations == {0, 3000}

\* getLogsByConversationId(ids.conversationId, 5000): waitMs
PollWaitMs == 5000

\* getLogsByConversationId: await sleep(2000)
PollSleepMs == 2000

\* path.expectedLogs.slice(0, 3): its length
FallbackCount(expected) == IF Len(expected) < 3 THEN Len(expected) ELSE 3

-----------------------------------------------------------------------------
(* The calls of validateLogs *)

\* the longest list of expected logs validateLogs is called with
MaxExpected == 3

\* the longest list of logs validateLogs is called with
MaxLogs == 2

\* the expected logs of the calls: two entries of path 1 with required
\* fields, and an entry with logger and outcome and an optional entry of
\* path 12
ExpectedPool ==
    {testPaths[1].expectedLogs[5], testPaths[1].expectedLogs[6],
     testPaths[9].expectedLogs[2], testPaths[9].expectedLogs[3]}

\* the lists of expected logs of the calls: no entry twice
ExpectedLists ==
    {expected \in UNION {[1..n -> ExpectedPool] : n \in 0..MaxExpected} :
        \A i \in DOMAIN expected, j \in DOMAIN expected :
            expected[i] = expected[j] => i = j}

\* the logs of the calls: for each expected log one that matches it with
\* its required fields and one without them, and a log of
\* evidence_request_received with the outcome failure
LogPool ==
    {LogFor(exp, withFields) : exp \in ExpectedPool, withFields \in BOOLEAN}
    \cup {SetPath(LogFor(testPaths[1].expectedLogs[5], TRUE),
                   <<"event", "outcome">>, Str("failure"))}

\* the lists of logs of the calls
LogLists == UNION {[1..n -> LogPool] : n \in 0..MaxLogs}

\* the values of oots.response.result in the logs of evidence_response_sent
ResponseResults == {"preview_requested", "error"}

\* a log for each expected log with its required fields, in order; the
\* logs of evidence_response_sent have the given oots.response.result
LogsWithResult(expected, result) ==
    [n \in DOMAIN expected |->
        IF expected[n].eventAction = "evidence_response_sent"
        THEN SetPath(LogFor(expected[n], TRUE), <<"oots", "response", "result">>,
                     Str(result))
        ELSE LogFor(expected[n], TRUE)]

\* what Elasticsearch may hold for a conversation of path 1
ScenarioLogs ==
    {LogsWithResult(testPaths[1].expectedLogs, result) : result \in ResponseResults}
    \cup {<<>>, LogsFor(testPaths[1].expectedLogs, FALSE)}

\* a call of validateLogs(logs, expected)
CallValidateLogs(logs, expected) ==
    /\ call = NoCall
    /\ call' = [NoCall EXCEPT !.fn = "validateLogs", !.logs = logs,
                              !.expectedLogs = expected,
                              !.validation = validateLogs(logs, expected)]
    /\ UNCHANGED <<mockVars, runnerVars, wait>>

\* the validators called on every input, one call at a time
ValidatorsNext ==
    \/ CallReturned
    \/ /\ call = NoCall
       /\ \E obj \in NestedDocs, path \in Paths : CallGetNestedValue(obj, path)
    \/ /\ call = NoCall
       /\ \E doc \in FieldDocs, expected \in ExpectedMaps :
             CallValidateFields(doc, expected)
    \/ /\ call = NoCall
       /\ \E logs \in LogLists, expected \in ExpectedLists :
             CallValidateLogs(logs, expected)
    \/ /\ call = NoCall
       /\ \E logs \in ScenarioLogs : CallValidateLogs(logs, testPaths[1].expectedLogs)

-----------------------------------------------------------------------------
(* The path-coverage test runner: main and runTest *)

\* no --path= argument: selectedPath is null
NoPathArg == [set |-> FALSE, n |-> 0]

\* the values of selectedPath: null, zero, a path with a callback, an id the
\* catalog does not have, a path that sets the mode in its trigger
PathArgs == {NoPathArg} \cup {[set |-> TRUE, n |-> n] : n \in {0, 2, 3, 6}}

\* which services answer the prerequisite checks
ServiceStates ==
    [es : BOOLEAN, red : BOOLEAN, blue : BOOLEAN, mock : BOOLEAN, bridge : BOOLEAN]

\* checkPrerequisites() has not returned: main has no prereqsOk.  When it has,
\* env says which services answered its checks and ok is prereqsOk
NoPrereqs ==
    [done |-> FALSE, ok |-> FALSE,
     env |-> [es |-> FALSE, red |-> FALSE, blue |-> FALSE, mock |-> FALSE,
              bridge |-> FALSE]]

\* generateIds().conversationId of the k-th run
ConversationIds ==
    <<"conv-1", "conv-2", "conv-3", "conv-4", "conv-5", "conv-6", "conv-7",
      "conv-8", "conv-9">>

\* the conversation id of a run that an earlier process of the runner made
EarlierConversation == "conv-0"

\* `${BRIDGE_URL}/store`
BridgeStore == LocalHttp

\* setMockEmrexBehavior(mode): delay = 0
DefaultDelay == [num |-> TRUE, val |-> 0]

\* a TestResult before runTest has built it
NoResult == [passed |-> FALSE, errors |-> <<>>, logsFound |-> <<>>]

\* runTest(path) has not been called.
\*   phase    pending, trigger, callback, waiting, polling, pollSleep,
\*            fallback, returned (the promise is settled), done (main has
\*            taken the result)
\*   step     the call of the trigger that is awaited
\*   elapsed  Date.now() - startTime of getLogsByConversationId
\*   fb       the expected log whose getLogsByEventAction is awaited
\*   logs     the logs gathered by the fallback queries
\*   waited   the milliseconds of sleep(waitTime), once it is over
NoRun ==
    [phase |-> "pending", step |-> 0, elapsed |-> 0, fb |-> 0, logs |-> <<>>,
     waited |-> 0, result |-> NoResult]

\* main() has been called and has read process.argv
InitRunner ==
    /\ main = [pc |-> "start", selectedPath |-> NoPathArg, pathsToRun |-> <<>>,
               i |-> 0, results |-> <<>>, exitCode |-> 0, prereqs |-> NoPrereqs]
    /\ runs = <<>>

\* pathsToRun, as the ids of its entries
SelectPaths(selectedPath) ==
    LET chosen == IF selectedPath.set /\ selectedPath.n # 0
                  THEN SelectSeq(testPaths, LAMBDA p : p.id = selectedPath.n)
                  ELSE testPaths
    IN [n \in DOMAIN chosen |-> chosen[n].id]

\* the catalog entry of the k-th run
PathOf(k) == PathById(main.pathsToRun[k])

\* the process exits with code 0 whatever code is asked for
Exit_AlwaysZero(m, code) == [m EXCEPT !.pc = "exited", !.exitCode = 0]

\* process.exit(code)
Exit(m, code) == [m EXCEPT !.pc = "exited", !.exitCode = code]

\* main from "Run tests" to the first await of its loop
EnterLoop(m) ==
    LET ids == SelectPaths(m.selectedPath)
    IN IF Len(ids) = 0
       THEN Exit([m EXCEPT !.pathsToRun = ids], 1)
       ELSE [m EXCEPT !.pc = "arm", !.pathsToRun = ids, !.i = 1]

\* main up to its first await
Start(selectedPath, skipPrereqs) ==
    /\ main.pc = "start"
    /\ LET m == [main EXCEPT !.selectedPath = selectedPath]
       IN /\ main' = IF skipPrereqs THEN EnterLoop(m) ELSE [m EXCEPT !.pc = "prereqs"]
          /\ runs' = IF skipPrereqs
                     THEN [k \in 1..Len(SelectPaths(selectedPath)) |-> NoRun]
                     ELSE runs
    /\ UNCHANGED mockVars

\* the check of the Bridge must pass as well
PrereqsOk_BridgeRequired(env) ==
    env.es /\ env.red /\ env.blue /\ env.mock /\ up /\ env.bridge

\* checkPrerequisites(): every check but the Bridge's must pass
PrereqsOk(env) == env.es /\ env.red /\ env.blue /\ env.mock /\ up

\* checkPrerequisites() returns; the mock serves GET /health when the checks
\* before it have passed and it is there
CheckPrerequisites(env) ==
    /\ main.pc = "prereqs"
    /\ main' = [main EXCEPT !.pc = "checked",
                            !.prereqs = [done |-> TRUE, ok |-> PrereqsOk(env),
                                         env |-> [env EXCEPT !.mock = @ /\ up]]]
    /\ IF env.es /\ env.red /\ env.blue /\ env.mock /\ up
       THEN Health
       ELSE UNCHANGED mockVars
    /\ UNCHANGED runs

\* main resumes after await checkPrerequisites(): it exits when prereqsOk is
\* false, and goes on to the loop otherwise, prereqsOk going out of scope
PrereqsChecked ==
    /\ main.pc = "checked"
    /\ IF main.prereqs.ok
       THEN /\ main' = EnterLoop([main EXCEPT !.prereqs = NoPrereqs])
            /\ runs' = [k \in 1..Len(SelectPaths(main.selectedPath)) |-> NoRun]
       ELSE /\ main' = Exit(main, 1)
            /\ UNCHANGED runs
    /\ UNCHANGED mockVars

\* main arms the mock with success whatever the path declares
ArmMode_AlwaysSuccess(path) == "success"

\* the mode main arms the mock with: path.emrexBehavior || 'success'
ArmMode(path) == IF path.emrexBehavior # NULL THEN path.emrexBehavior ELSE "success"

\* runTest(path) up to its first await, the first call of the trigger
BeginRun == [NoRun EXCEPT !.phase = "trigger", !.step = 1]

\* main: await setMockEmrexBehavior(...) is answered and runTest(path) is called
ArmMock ==
    /\ main.pc = "arm"
    /\ SetBehavior(ArmMode(PathOf(main.i)), DefaultDelay)
    /\ main' = [main EXCEPT !.pc = "run"]
    /\ runs' = [runs EXCEPT ![main.i] = BeginRun]

\* main: the request of setMockEmrexBehavior fails; main() rejects and the
\* catch handler exits
ArmRejected ==
    /\ main.pc = "arm"
    /\ main' = Exit(main, 1)
    /\ UNCHANGED <<mockVars, runs>>

\* the call of the trigger that the k-th run awaits
AwaitedCall(k) == PathOf(k).trigger[runs[k].step]

\* the trigger is over and the first query is sent at once
Advance_SkipsWait(r, path) ==
    IF r.step < Len(path.trigger)
    THEN [r EXCEPT !.phase = "trigger", !.step = @ + 1]
    ELSE [r EXCEPT !.phase = "polling", !.step = 0]

\* the awaited call of the trigger has settled: the next one is made, or the
\* trigger is over and sleep(waitTime) is awaited
Advance(r, path) ==
    IF r.step < Len(path.trigger)
    THEN [r EXCEPT !.phase = "trigger", !.step = @ + 1]
    ELSE [r EXCEPT !.phase = "waiting", !.step = 0]

\* runTest without its catch block: the error leaves runTest
Caught_Rethrown(r) == [r EXCEPT !.phase = "thrown"]

\* the catch block of runTest
Caught(r) ==
    [r EXCEPT !.phase = "returned", !.step = 0, !.elapsed = 0, !.fb = 0, !.logs = <<>>,
              !.waited = 0,
              !.result = [passed |-> FALSE,
                          errors |-> <<[kind |-> "String(error)", eventAction |-> NULL,
                                        field |-> <<>>]>>,
                          logsFound |-> <<>>]]

\* passed says that some expected log was found
Validated_PassedWhenFound(r, logs, path) ==
    LET validation == validateLogs(logs, path.expectedLogs)
    IN [r EXCEPT !.phase = "returned", !.step = 0, !.elapsed = 0, !.fb = 0, !.logs = <<>>,
              !.waited = 0,
                 !.result = [passed |-> Len(validation.found) > 0,
                             errors |-> validation.errors,
                             logsFound |-> validation.found]]

\* runTest from validateLogs to its return
Validated(r, logs, path) ==
    LET validation == validateLogs(logs, path.expectedLogs)
    IN [r EXCEPT !.phase = "returned", !.step = 0, !.elapsed = 0, !.fb = 0, !.logs = <<>>,
              !.waited = 0,
                 !.result = [passed |-> Len(validation.errors) = 0,
                             errors |-> validation.errors,
                             logsFound |-> validation.found]]

\* trigger: await setMockEmrexBehavior(mode) is answered
TriggerSetBehavior(k) ==
    /\ runs[k].phase = "trigger"
    /\ AwaitedCall(k).op = "setMockEmrexBehavior"
    /\ SetBehavior(AwaitedCall(k).mode, DefaultDelay)
    /\ runs' = [runs EXCEPT ![k] = Advance(@, PathOf(k))]
    /\ UNCHANGED main

\* trigger: await submitToDomibus(...) returns; its result is not looked at
\* and it catches the failure of its request
TriggerSubmit(k) ==
    /\ runs[k].phase = "trigger"
    /\ AwaitedCall(k).op = "submitToDomibus"
    /\ runs' = [runs EXCEPT ![k] = Advance(@, PathOf(k))]
    /\ UNCHANGED <<mockVars, main>>

\* trigger: await sleep(8000) is over
TriggerSleep(k) ==
    /\ runs[k].phase = "trigger"
    /\ AwaitedCall(k).op = "sleep"
    /\ runs' = [runs EXCEPT ![k] = Advance(@, PathOf(k))]
    /\ UNCHANGED <<mockVars, main>>

\* trigger: the mock receives the GET /emrex of simulateEmrexCallback
TriggerCallback(k) ==
    /\ runs[k].phase = "trigger"
    /\ AwaitedCall(k).op = "simulateEmrexCallback"
    /\ GetEmrex(ConversationIds[k], BridgeStore)
    /\ runs' = [runs EXCEPT ![k].phase = "callback"]
    /\ UNCHANGED main

\* httpRequest gives up on a request that is left hanging: it rejects and the
\* catch block of runTest builds the result
CallbackReplied_Deadline(k) ==
    /\ runs[k].phase = "callback"
    /\ inv.phase \in {"replied", "hung"}
    /\ inv.sessionId = ConversationIds[k]
    /\ runs' = [runs EXCEPT ![k] =
                  IF inv.phase = "hung" THEN Caught(@) ELSE Advance(@, PathOf(k))]
    /\ UNCHANGED <<mockVars, main>>

\* trigger: the mock has answered the GET /emrex; the status is not looked at
CallbackReplied(k) ==
    /\ runs[k].phase = "callback"
    /\ inv.phase = "replied"
    /\ inv.sessionId = ConversationIds[k]
    /\ runs' = [runs EXCEPT ![k] = Advance(@, PathOf(k))]
    /\ UNCHANGED <<mockVars, main>>

\* trigger: a request to the mock fails before the mock has received it
TriggerRejected(k) ==
    /\ runs[k].phase = "trigger"
    /\ AwaitedCall(k).op \in {"setMockEmrexBehavior", "simulateEmrexCallback"}
    /\ runs' = [runs EXCEPT ![k] = Caught(@)]
    /\ UNCHANGED <<mockVars, main>>

\* const waitTime = path.waitTime || 15000
WaitTime(path) == IF path.waitTime # 0 THEN path.waitTime ELSE 15000

\* await sleep(waitTime) is over and the first query is sent
WaitElapsed(k) ==
    /\ runs[k].phase = "waiting"
    /\ runs' = [runs EXCEPT ![k] = [@ EXCEPT !.phase = "polling",
                                             !.waited = WaitTime(PathOf(k))]]
    /\ UNCHANGED <<mockVars, main>>

\* getLogsByConversationId: the query is answered after duration ms
EsAnswered(k, logs, duration) ==
    /\ runs[k].phase = "polling"
    /\ runs' = [runs EXCEPT ![k] =
                  IF Len(logs) > 0
                  THEN Validated(@, logs, PathOf(k))
                  ELSE [@ EXCEPT !.phase = "pollSleep", !.elapsed = @ + duration]]
    /\ UNCHANGED <<mockVars, main>>

\* the loop condition is not tested: a query follows every sleep
PollSleepElapsed_IgnoresBudget(k) ==
    /\ runs[k].phase = "pollSleep"
    /\ runs' = [runs EXCEPT ![k] =
                  [@ EXCEPT !.phase = "polling", !.elapsed = @ + PollSleepMs]]
    /\ UNCHANGED <<mockVars, main>>

\* getLogsByConversationId: sleep(2000) is over and the loop condition is
\* tested; when it fails the first fallback query is sent
PollSleepElapsed(k) ==
    /\ runs[k].phase = "pollSleep"
    /\ LET elapsed == runs[k].elapsed + PollSleepMs
       IN runs' = [runs EXCEPT ![k] =
                     IF elapsed < PollWaitMs
                     THEN [@ EXCEPT !.phase = "polling", !.elapsed = elapsed]
                     ELSE IF FallbackCount(PathOf(k).expectedLogs) = 0
                          THEN Validated(@, <<>>, PathOf(k))
                          ELSE [@ EXCEPT !.phase = "fallback", !.elapsed = 0, !.fb = 1]]
    /\ UNCHANGED <<mockVars, main>>

\* getLogsByEventAction of the fb-th expected log is answered
FallbackAnswered(k, byAction) ==
    /\ runs[k].phase = "fallback"
    /\ LET logs == IF Len(byAction) > 0 THEN runs[k].logs \o byAction ELSE runs[k].logs
       IN runs' = [runs EXCEPT ![k] =
                     IF runs[k].fb < FallbackCount(PathOf(k).expectedLogs)
                     THEN [@ EXCEPT !.fb = @ + 1, !.logs = logs]
                     ELSE Validated(@, logs, PathOf(k))]
    /\ UNCHANGED <<mockVars, main>>

\* what the term query on oots.conversation.id may find for the k-th run:
\* logs of its conversation
ConversationBatches(k) ==
    {[n \in DOMAIN batch |-> InConversation(batch[n], ConversationIds[k])] :
        batch \in LogBatches(PathOf(k).expectedLogs)}

\* what the awaited conversation query of the k-th run may be answered with
PollBatches(k) ==
    IF runs[k].phase = "polling"
    THEN ConversationBatches(k)
    ELSE {}

\* what the awaited fallback query of the k-th run may be answered with: the
\* query names the event action and the time of the trigger, and no
\* conversation
FallbackBatches(k) ==
    IF runs[k].phase = "fallback"
    THEN ActionBatches(PathOf(k).expectedLogs[runs[k].fb],
                       {ConversationIds[k], EarlierConversation})
    ELSE {}

\* esQuery rejects: the request fails or the answer is not JSON
EsQueryRejected(k) ==
    /\ runs[k].phase \in {"polling", "fallback"}
    /\ runs' = [runs EXCEPT ![k] = Caught(@)]
    /\ UNCHANGED <<mockVars, main>>

\* main goes on without waiting for the promise of runTest
RunAwaited_NoAwait(k) == TRUE

\* const result = await runTest(path): main resumes when the promise is settled
RunAwaited(k) == runs[k].phase = "returned"

\* main from results.push(result) to the next await, or to process.exit
\* after the summary
RunReturned ==
    /\ main.pc = "run"
    /\ RunAwaited(main.i)
    /\ LET results == Append(main.results,
                             [path |-> main.pathsToRun[main.i],
                              passed |-> runs[main.i].result.passed])
           failed == Len(SelectSeq(results, LAMBDA r : ~r.passed))
       IN main' = IF main.i < Len(main.pathsToRun)
                  THEN [main EXCEPT !.pc = "arm", !.i = @ + 1, !.results = results]
                  ELSE Exit([main EXCEPT !.results = results],
                            IF failed > 0 THEN 1 ELSE 0)
    /\ runs' = [runs EXCEPT ![main.i] =
                  IF @.phase = "returned"
                  THEN [@ EXCEPT !.phase = "done", !.result = NoResult]
                  ELSE @]
    /\ UNCHANGED mockVars

\* the runner and the mock it drives; the runner is the mock's only client
RunnerNext ==
    \/ /\ \E selectedPath \in PathArgs, skipPrereqs \in BOOLEAN :
             Start(selectedPath, skipPrereqs)
       /\ UNCHANGED <<call, wait>>
    \/ /\ \E env \in ServiceStates : CheckPrerequisites(env)
       /\ UNCHANGED <<call, wait>>
    \/ PrereqsChecked /\ UNCHANGED <<call, wait>>
    \/ ArmMock /\ UNCHANGED <<call, wait>>
    \/ ArmRejected /\ UNCHANGED <<call, wait>>
    \/ /\ \E k \in DOMAIN runs : TriggerSetBehavior(k)
       /\ UNCHANGED <<call, wait>>
    \/ /\ \E k \in DOMAIN runs : TriggerSubmit(k)
       /\ UNCHANGED <<call, wait>>
    \/ /\ \E k \in DOMAIN runs : TriggerSleep(k)
       /\ UNCHANGED <<call, wait>>
    \/ /\ \E k \in DOMAIN runs : TriggerCallback(k)
       /\ UNCHANGED <<call, wait>>
    \/ /\ \E k \in DOMAIN runs : CallbackReplied(k)
       /\ UNCHANGED <<call, wait>>
    \/ /\ \E k \in DOMAIN runs : TriggerRejected(k)
       /\ UNCHANGED <<call, wait>>
    \/ /\ \E k \in DOMAIN runs : WaitElapsed(k)
       /\ UNCHANGED <<call, wait>>
    \/ /\ \E k \in DOMAIN runs, d \in QueryDurations :
             \E logs \in PollBatches(k) : EsAnswered(k, logs, d)
       /\ UNCHANGED <<call, wait>>
    \/ /\ \E k \in DOMAIN runs : PollSleepElapsed(k)
       /\ UNCHANGED <<call, wait>>
    \/ /\ \E k \in DOMAIN runs :
             \E byAction \in FallbackBatches(k) : FallbackAnswered(k, byAction)
       /\ UNCHANGED <<call, wait>>
    \/ /\ \E k \in DOMAIN runs : EsQueryRejected(k)
       /\ UNCHANGED <<call, wait>>
    \/ RunReturned /\ UNCHANGED <<call, wait>>
    \/ /\ \E st \in StatusCodes : CallbackAnswered(st)
       /\ UNCHANGED <<runnerVars, call, wait>>
    \/ CallbackFailed /\ UNCHANGED <<runnerVars, call, wait>>

-----------------------------------------------------------------------------
(* waitForResponse of the gateway scenario script *)

\* the sleep between two rounds of polling, in milliseconds
PollIntervalMs == 2000

\* the values of timeoutMs: none at all, and two and three rounds (the
\* script passes 30000 and 45000)
WaitTimeouts == {0, 4000, 6000}

\* the time a call of the gateway client may take, in milliseconds
GatewayMs == {0, 1000}

\* the ids of the gateway's pending messages
MessageIds == {"m1", "m2", "m3"}

\* the conversation ids of the messages, and of the calls
WaitConversations == {"conv-a", "conv-b"}

\* header.Messaging.UserMessage.CollaborationInfo.ConversationId of the
\* message as the gateway holds it
HeaderConversation(msgId) == IF msgId = "m1" THEN "conv-a" ELSE "conv-b"

\* the longest array of message ids a listing answers with
MaxPending == 2

\* what listPendingMessagesAsync settles with: a rejection, a result with no
\* messageID, with one message id that is not in an array, or with an array
\* of message ids, where an element may be empty
Listings ==
    {[kind |-> "error", ids |-> <<>>], [kind |-> "none", ids |-> <<>>]}
    \cup {[kind |-> "one", ids |-> <<m>>] : m \in MessageIds}
    \cup {[kind |-> "array", ids |-> ids] :
             ids \in UNION {[1..n -> MessageIds \cup {NULL}] : n \in 0..MaxPending}}

\* what retrieveMessageAsync settles with: a rejection, a result without a
\* header, or the message with its header
Retrievals == {"error", "noHeader", "message"}

\* waitForResponse has not been called.
\*   pc       idle, list, retrieve, sleep, returned, thrown
\*   elapsed  Date.now() - startTime
\*   msgs     the message ids the for loop has not finished, the first being
\*            the one whose retrieval is awaited
\*   seen     the messages retrieved in this round and the conversation ids
\*            found in their headers
\*   caught   the number of errors the catch block has dropped
\*   result   the messageId of the object returned, NULL for null
NoWait ==
    [pc |-> "idle", conversationId |-> NULL, timeoutMs |-> 0, elapsed |-> 0,
     msgs |-> <<>>, seen |-> <<>>, caught |-> 0, result |-> NULL]

\* the test of the while loop and what follows up to the next await: the
\* listing is requested, or null is returned
LoopTest(w) ==
    IF w.elapsed < w.timeoutMs
    THEN [w EXCEPT !.pc = "list", !.msgs = <<>>, !.seen = <<>>]
    ELSE [w EXCEPT !.pc = "returned", !.msgs = <<>>, !.seen = <<>>, !.result = NULL]

\* waitForResponse without its try block: the error leaves the function
PollCaught_Rethrown(w) == [w EXCEPT !.pc = "thrown", !.msgs = <<>>]

\* the catch block: the error is dropped, the rest of the round is left out
\* and the sleep is awaited
PollCaught(w) == [w EXCEPT !.pc = "sleep", !.msgs = <<>>, !.caught = @ + 1]

\* the for loop from the given message ids on, up to its next await: empty
\* ids are skipped, and after the last id the sleep is awaited
RECURSIVE NextMessage(_, _)
NextMessage(w, ids) ==
    IF Len(ids) = 0
    THEN [w EXCEPT !.pc = "sleep", !.msgs = <<>>]
    ELSE IF Head(ids) = NULL
         THEN NextMessage(w, Tail(ids))
         ELSE [w EXCEPT !.pc = "retrieve", !.msgs = ids]

\* waitForResponse(client, conversationId, timeoutMs) up to its first await
CallWaitForResponse(conversationId, timeoutMs) ==
    /\ wait.pc = "idle"
    /\ wait' = LoopTest([NoWait EXCEPT !.conversationId = conversationId,
                                       !.timeoutMs = timeoutMs])
    /\ UNCHANGED <<mockVars, runnerVars, call>>

\* await client.listPendingMessagesAsync({}) settles after ms milliseconds
ListAnswered(listing, ms) ==
    /\ wait.pc = "list"
    /\ LET w == [wait EXCEPT !.elapsed = @ + ms]
       IN wait' = IF listing.kind = "error"
                  THEN PollCaught(w)
                  ELSE NextMessage(w, listing.ids)
    /\ UNCHANGED <<mockVars, runnerVars, call>>

\* await client.retrieveMessageAsync({messageID: msgId}) settles after ms
\* milliseconds
RetrieveAnswered(retrieval, ms) ==
    /\ wait.pc = "retrieve"
    /\ LET msgId == Head(wait.msgs)
           w == [wait EXCEPT !.elapsed = @ + ms]
           conversation == IF retrieval = "message" THEN HeaderConversation(msgId) ELSE NULL
           v == [w EXCEPT !.seen = Append(@, [id |-> msgId, conversationId |-> conversation])]
       IN wait' = IF retrieval = "error"
                  THEN PollCaught(w)
                  ELSE IF conversation = w.conversationId
                       THEN [v EXCEPT !.pc = "returned", !.msgs = <<>>, !.result = msgId]
                       ELSE NextMessage(v, Tail(w.msgs))
    /\ UNCHANGED <<mockVars, runnerVars, call>>

\* the setTimeout of 2000 ms fires and the loop test is made again
IntervalElapsed ==
    /\ wait.pc = "sleep"
    /\ wait' = LoopTest([wait EXCEPT !.elapsed = @ + PollIntervalMs])
    /\ UNCHANGED <<mockVars, runnerVars, call>>

\* the scenario has taken what waitForResponse returned
WaitReturned ==
    /\ wait.pc = "returned"
    /\ wait' = NoWait
    /\ UNCHANGED <<mockVars, runnerVars, call>>

\* waitForResponse called with every conversation and timeout, the gateway
\* answering in every way
WaitNext ==
    \/ \E conversationId \in WaitConversations, timeoutMs \in WaitTimeouts :
          CallWaitForResponse(conversationId, timeoutMs)
    \/ /\ wait.pc = "list"
       /\ \E listing \in Listings, ms \in GatewayMs : ListAnswered(listing, ms)
    \/ /\ wait.pc = "retrieve"
       /\ \E retrieval \in Retrievals, ms \in GatewayMs : RetrieveAnswered(retrieval, ms)
    \/ IntervalElapsed
    \/ WaitReturned

-----------------------------------------------------------------------------
(* The mock EMREX provider serving arbitrary clients; the runner is not
   started *)

Init == InitMock /\ InitRunner /\ call = NoCall /\ wait = NoWait

Next ==
    \/ /\ \E s \in SessionIds \cup {NULL}, u \in ReturnUrls \cup {NoUrl} :
             GetEmrex(s, u)
       /\ UNCHANGED <<runnerVars, call, wait>>
    \/ /\ \E s \in SessionIds \cup {NULL}, t \in SessionIds \cup {NULL},
             u \in PostReturnUrls \cup {NoUrl} : PostEmrex(s, t, u)
       /\ UNCHANGED <<runnerVars, call, wait>>
    \/ PostEmrexNoBody /\ UNCHANGED <<runnerVars, call, wait>>
    \/ DelayElapsed /\ UNCHANGED <<runnerVars, call, wait>>
    \/ /\ \E st \in StatusCodes : CallbackAnswered(st)
       /\ UNCHANGED <<runnerVars, call, wait>>
    \/ CallbackFailed /\ UNCHANGED <<runnerVars, call, wait>>
    \/ /\ \E m \in ModeInputs, d \in DelayInputs : SetBehavior(m, d)
       /\ UNCHANGED <<runnerVars, call, wait>>
    \/ GetConfig /\ UNCHANGED <<runnerVars, call, wait>>
    \/ Health /\ UNCHANGED <<runnerVars, call, wait>>

Spec == Init /\ [][Next]_vars

\* the runner is started against a mock that runs with the default
\* BRIDGE_STORE_URL
RunnerInit == Init /\ bridgeStoreUrl = LocalHttp

RunnerSpec == RunnerInit /\ [][RunnerNext]_vars

\* the runner when every request it has sent is answered or fails, every
\* timer fires and every resumed continuation runs: a step that can be taken
\* is taken in the end
RunnerFairSpec == RunnerSpec /\ WF_vars(RunnerNext)

\* another client of the mock posts the mode timeout to /test/behavior after
\* main has armed the mock, while the run is about to send the GET /emrex of
\* simulateEmrexCallback
OtherClientSetsTimeout ==
    /\ main.pc = "run"
    /\ runs[main.i].phase = "trigger"
    /\ AwaitedCall(main.i).op = "simulateEmrexCallback"
    /\ behavior # "timeout"
    /\ SetBehavior("timeout", NoDelay)
    /\ UNCHANGED <<runnerVars, call, wait>>

\* the runner and a mock it shares with another client
SharedMockNext ==
    \/ RunnerNext
    \/ OtherClientSetsTimeout

SharedMockSpec == RunnerInit /\ [][SharedMockNext]_vars

\* waitForResponse on its own
WaitInit == Init /\ bridgeStoreUrl = LocalHttp

WaitSpec == WaitInit /\ [][WaitNext]_vars

\* the validators on their own: neither the mock nor the runner moves
ValidatorsInit == Init /\ bridgeStoreUrl = LocalHttp

ValidatorsSpec == ValidatorsInit /\ [][ValidatorsNext]_vars

-----------------------------------------------------------------------------
(* Claims about the mock EMREX provider *)

\* the result-code column of the mode table
ModeTableCode(mode) ==
    CASE mode \in {"success", "invalid_gzip", "invalid_xml", "identity_mismatch"} -> "NCP_OK"
      [] mode = "error" -> "NCP_ERROR"
      [] mode = "no_records" -> "NCP_NO_RESULTS"
      [] mode = "cancel" -> "NCP_CANCEL"

\* the request had both parameters and was not left hanging by the timeout mode
Served == ~inv.missing /\ inv.phase \in {"posting", "replied"}

\* C1 as stated: for every mode other than timeout, each /emrex request with
\* both sessionId and returnUrl issues exactly one outbound POST to returnUrl,
\* carrying the same sessionId and the return code of the mode table.
C1_ExactlyOnePostToReturnUrl ==
    Served =>
        /\ inv.nPosts = 1
        /\ \A k \in 1..Len(inv.posts) :
              /\ inv.posts[k].url = inv.returnUrl
              /\ inv.posts[k].sessionId = inv.sessionId
              /\ inv.posts[k].behavior # "timeout" =>
                    inv.posts[k].returnCode = ModeTableCode(inv.posts[k].behavior)

\* C1 as amended: a request with both parameters, received in a mode other
\* than timeout, issues at most one outbound POST and, when the returnUrl
\* (after the Docker host rewrite) parses as an absolute URL, exactly one; the
\* POST goes to the rewritten returnUrl and carries the same sessionId and the
\* return code the mode table assigns to the mode in force when it is built.
\* A returnUrl that does not parse gets no POST and the answer 500.
C1_ExactlyOnePostToRewrittenUrl ==
    /\ inv.nPosts = (IF Served /\ UrlParses(rewriteUrlForDocker(inv.returnUrl)) THEN 1 ELSE 0)
       \/ (inv.missing /\ inv.via = "POST")
    /\ Len(inv.posts) = (IF inv.phase = "posting" THEN 1 ELSE 0)
    /\ (Served /\ ~UrlParses(rewriteUrlForDocker(inv.returnUrl))) => inv.reply = 500
    /\ ~inv.missing =>
          \A k \in 1..Len(inv.posts) :
             /\ inv.posts[k].url = rewriteUrlForDocker(inv.returnUrl)
             /\ inv.posts[k].sessionId = inv.sessionId
             /\ inv.posts[k].behavior # "timeout" =>
                   inv.posts[k].returnCode = ModeTableCode(inv.posts[k].behavior)

\* C1 witness: a callback is on its way to a rewritten returnUrl
C1_Witness ==
    /\ inv.phase = "posting"
    /\ ~inv.missing
    /\ inv.nPosts = 1
    /\ inv.posts[1].url # inv.returnUrl
    /\ inv.posts[1].returnCode = "NCP_CANCEL"

\* C2: a request with both parameters that arrives while the mode is timeout
\* is left hanging, and a hanging request stays as it is for ever: it gets no
\* answer and issues no callback, whatever is done afterwards.
C2_TimeoutNeverAnswers ==
    [][/\ (Idle /\ inv' # inv /\ behavior = "timeout" /\ ~inv'.missing) =>
              inv'.phase = "hung"
       /\ inv'.phase = "hung" => (inv'.reply = 0 /\ inv'.nPosts = 0 /\ inv'.posts = <<>>)
       /\ inv.phase = "hung" => inv' = inv]_vars

\* C2 witness: a request hangs although the mode has been changed since
C2_Witness ==
    /\ inv.phase = "hung"
    /\ ~inv.missing
    /\ behavior = "success"
    /\ ctl.op = "getConfig"

\* C3: the fields of a callback follow from the mode alone: the four payload
\* modes give NCP_OK with a payload and no returnMessage, error, no_records
\* and cancel give their own code with a returnMessage and no payload.
C3_FieldsFollowMode ==
    \A k \in 1..Len(inv.posts) :
       LET p == inv.posts[k]
       IN /\ p.behavior \in {"success", "invalid_gzip", "invalid_xml", "identity_mismatch"} =>
                (p.returnCode = "NCP_OK" /\ p.elmo # NoElmo /\ p.returnMessage = NULL)
          /\ p.behavior = "error" =>
                (p.returnCode = "NCP_ERROR" /\ p.elmo = NoElmo /\ p.returnMessage # NULL)
          /\ p.behavior = "no_records" =>
                (p.returnCode = "NCP_NO_RESULTS" /\ p.elmo = NoElmo /\ p.returnMessage # NULL)
          /\ p.behavior = "cancel" =>
                (p.returnCode = "NCP_CANCEL" /\ p.elmo = NoElmo /\ p.returnMessage # NULL)

\* C3 witness: a callback built in the error mode is on its way
C3_Witness ==
    /\ inv.phase = "posting"
    /\ inv.posts[1].behavior = "error"
    /\ inv.posts[1].returnCode = "NCP_ERROR"

\* C4 as stated: a request, by GET or by POST, that lacks sessionId or
\* returnUrl is answered at once with an error and issues no callback.
C4_MissingParamFailsFast ==
    inv.missing => (inv.phase = "replied" /\ inv.reply >= 400 /\ inv.nPosts = 0)

\* C5: a network failure of the callback is caught: the request is answered
\* with a failure, the process keeps running and the configuration is as it
\* was, so later requests are served as if nothing had happened.
C5_CallbackFailureCaught ==
    /\ [](/\ up
          /\ (inv.phase = "replied" /\ inv.nPosts = 1 /\ inv.cbStatus = 0) =>
                (inv.reply = 500 /\ inv.outcome = "failure"))
    /\ [][(inv.phase = "posting" /\ inv'.phase = "replied" /\ inv'.cbStatus = 0) =>
             UNCHANGED <<behavior, responseDelay>>]_vars

\* C5 witness: a callback has failed and a later control request is answered
C5_Witness ==
    /\ inv.phase = "replied"
    /\ inv.nPosts = 1
    /\ inv.cbStatus = 0
    /\ inv.reply = 500
    /\ ctl.op = "setBehavior"
    /\ ctl.status = 200

C7_SetBehaviorSetsPair ==
    /\ []((ctl.op = "setBehavior" /\ ctl.mode \in validModes /\ ctl.delay.num) =>
             /\ ctl.status = 200
             /\ behavior = ctl.mode /\ responseDelay = ctl.delay.val
             /\ ctl.behavior = ctl.mode /\ ctl.responseDelay = ctl.delay.val)
    /\ [][(ctl.op = "setBehavior" /\ ctl.mode \in validModes /\ ctl.delay.num
             /\ ctl'.op = "getConfig") =>
             (/\ ctl'.status = 200
              /\ ctl'.behavior = ctl.mode /\ ctl'.responseDelay = ctl.delay.val)]_vars

\* C7 witness: setBehavior(cancel, 250) has been answered
C7_Witness ==
    /\ ctl.op = "setBehavior"
    /\ ctl.mode = "cancel"
    /\ ctl.delay = [num |-> TRUE, val |-> 250]
    /\ ctl.behavior = "cancel"
    /\ ctl.responseDelay = 250

\* C8: setBehavior with a mode string that is not a known mode leaves the
\* mode as it was and answers normally, with the unchanged mode.
C8_UnknownModeIgnored ==
    [][(ctl'.op = "setBehavior" /\ ctl'.mode # NULL /\ ctl'.mode \notin validModes) =>
          (/\ behavior' = behavior
           /\ ctl'.status = 200
           /\ ctl'.behavior = behavior)]_vars

\* C8 witness: an unknown mode was sent while the mode was cancel
C8_Witness ==
    /\ ctl.op = "setBehavior"
    /\ ctl.mode = "bogus"
    /\ ctl.status = 200
    /\ behavior = "cancel"

\* C9: the pair (behavior, responseDelay) changes only in a step that answers
\* a setBehavior: no step of an /emrex request changes it, nor does getConfig
\* or the health check.
C9_OnlySetBehaviorWrites ==
    [][(behavior' # behavior \/ responseDelay' # responseDelay) =>
          (ctl'.op = "setBehavior" /\ inv' = inv)]_vars

\* C9 witness: a request slept through a delay and was answered, the health
\* check ran, and the pair is the one that was set
C9_Witness ==
    /\ inv.phase = "replied"
    /\ inv.reply = 200
    /\ ctl.op = "health"
    /\ behavior = "error"
    /\ responseDelay = 250

-----------------------------------------------------------------------------
(* Claims about the test runner *)

\* main is arming the mock for the k-th path, or the k-th runTest is between
\* its call and its return
InFlight(k) ==
    \/ main.pc = "arm" /\ main.i = k
    \/ runs[k].phase \in {"trigger", "callback", "waiting", "polling", "pollSleep",
                          "fallback"}

\* the k-th runTest has returned its result
Finished(k) == runs[k].phase \in {"returned", "done"}

\* the position of a path id in the catalog
CatalogIndex(id) == CHOOSE n \in DOMAIN testPaths : testPaths[n].id = id

\* C10: the selected paths run strictly one after another in catalog order:
\* at most one path is in flight at any time, and when a path is being armed
\* or has been started, every path before it has finished its arming,
\* trigger, wait, queries and validation; the results are pushed in the
\* same order.
C10_StrictlySequential ==
    /\ Cardinality({k \in DOMAIN runs : InFlight(k)}) <= 1
    /\ \A j, k \in DOMAIN runs :
          (j < k /\ (InFlight(k) \/ Finished(k))) => Finished(j)
    /\ \A j, k \in DOMAIN main.pathsToRun :
          j < k => CatalogIndex(main.pathsToRun[j]) < CatalogIndex(main.pathsToRun[k])
    /\ Len(main.results) <= Len(main.pathsToRun)
    /\ \A n \in DOMAIN main.results : main.results[n].path = main.pathsToRun[n]

\* C10 witness: the whole catalog is selected, the first path has passed, the
\* second has failed, and the third is in its fallback queries
C10_Witness ==
    /\ Len(main.pathsToRun) = Len(testPaths)
    /\ Len(main.results) = 2
    /\ main.results[1].passed
    /\ ~main.results[2].passed
    /\ runs[1].phase = "done"
    /\ runs[2].phase = "done"
    /\ runs[3].phase = "fallback"
    /\ runs[4].phase = "pending"

\* the mode the catalog declares for the k-th selected path, success when it
\* declares none
DeclaredMode(k) ==
    LET declared == PathOf(k).emrexBehavior
    IN IF declared = NULL THEN "success" ELSE declared

\* C11: a path run begins only in the step in which the mock answers main's
\* setMockEmrexBehavior, which leaves the mock at the path's declared mode
\* (success when it declares none) and delay 0; throughout the trigger the
\* mock stays at that pair, and the invocation the trigger makes is served
\* at once with the callback of the declared mode.
C11_ArmedBeforeEachRun ==
    /\ [](\A k \in DOMAIN runs :
            runs[k].phase \in {"trigger", "callback"} =>
               (behavior = DeclaredMode(k) /\ responseDelay = 0))
    /\ [][\A k \in DOMAIN runs' :
            /\ (k \in DOMAIN runs /\ runs[k].phase = "pending" /\ runs'[k].phase # "pending") =>
                  /\ main.pc = "arm" /\ main.i = k
                  /\ ctl'.op = "setBehavior"
                  /\ ctl'.mode = DeclaredMode(k)
                  /\ ctl'.delay = [num |-> TRUE, val |-> 0]
                  /\ behavior' = DeclaredMode(k)
                  /\ responseDelay' = 0
            /\ (k \in DOMAIN runs /\ runs[k].phase = "trigger" /\ runs'[k].phase = "callback") =>
                  /\ inv'.phase = "posting"
                  /\ inv'.sessionId = ConversationIds[k]
                  /\ inv'.posts[1].behavior = DeclaredMode(k)
                  /\ inv'.posts[1].returnCode = CallbackFields(DeclaredMode(k)).returnCode]_vars

\* C11 witness: in a run of the whole catalog the third path (cancel) follows
\* two paths armed with success, and its invocation is posting NCP_CANCEL
C11_Witness ==
    /\ Len(main.pathsToRun) = Len(testPaths)
    /\ main.i = 3
    /\ runs[3].phase = "callback"
    /\ DeclaredMode(3) = "cancel"
    /\ behavior = "cancel"
    /\ inv.phase = "posting"
    /\ inv.posts[1].returnCode = "NCP_CANCEL"

\* C12 as stated: a query that fails in the polling loop does not end the
\* run: a run leaves the polling loop for its return only with logs that
\* were validated, never through the catch block.
C12_QueryFailureNotFatal ==
    [][\A k \in DOMAIN runs :
          (runs[k].phase = "polling" /\ runs'[k].phase = "returned") =>
              runs'[k] # Caught(runs[k])]_vars

\* the k-th run has left getLogsByConversationId with these logs and gone on
\* to validate them
ReturnedLogs(k, logs) == runs'[k] = Validated(runs[k], logs, PathOf(k))

ActivePhases == {"trigger", "callback", "waiting", "polling", "pollSleep", "fallback"}

\* the result was built by the catch block of runTest
FromCatch(result) ==
    Len(result.errors) > 0 /\ result.errors[1].kind = "String(error)"

\* C14: whatever happens in the trigger or in a query, a run ends only by
\* returning a TestResult; the one built for a thrown error has passed =
\* false, exactly one error and no logsFound; and main, once it has the
\* result of a path, goes on to arm the next selected path (to the summary
\* after the last one) whatever the result says.
C14_ThrownErrorIsCaught ==
    /\ [](\A k \in DOMAIN runs :
            (runs[k].phase = "returned" /\ FromCatch(runs[k].result)) =>
               /\ ~runs[k].result.passed
               /\ Len(runs[k].result.errors) = 1
               /\ Len(runs[k].result.logsFound) = 0)
    /\ [][/\ \A k \in DOMAIN runs :
               (runs[k].phase \in ActivePhases /\ runs'[k].phase \notin ActivePhases) =>
                   runs'[k].phase = "returned"
          /\ (main.pc = "run" /\ main'.pc # "run") =>
                 /\ runs[main.i].phase = "returned"
                 /\ Len(main'.results) = main.i
                 /\ main'.results[main.i].passed = runs[main.i].result.passed
                 /\ IF main.i < Len(main.pathsToRun)
                    THEN main'.pc = "arm" /\ main'.i = main.i + 1
                    ELSE main'.pc = "exited"]_vars

\* C14 witness: the first path has failed, and the request of the second
\* path's simulateEmrexCallback has failed and been caught, with seven paths
\* still to run
C14_Witness ==
    /\ Len(main.pathsToRun) = Len(testPaths)
    /\ Len(main.results) = 1
    /\ ~main.results[1].passed
    /\ main.pc = "run"
    /\ runs[2].phase = "returned"
    /\ FromCatch(runs[2].result)
    /\ inv.phase = "none"

\* C15 as stated: whatever happens while a path is armed or run, the runner
\* goes on to the next path: when the process exits, exactly one TestResult
\* has been produced for every selected path.
C15_OneResultPerSelectedPath ==
    main.pc = "exited" =>
        /\ Len(main.results) = Len(main.pathsToRun)
        /\ \A n \in DOMAIN main.results : main.results[n].path = main.pathsToRun[n]

\* the expected logs that no log matches and that are not optional
MissingLogs(logs, expected) ==
    {n \in DOMAIN expected :
        /\ ~expected[n].optional
        /\ \A i \in DOMAIN logs : ~LogMatches(logs[i], expected[n])}

\* the required fields, as <<expected log, field>>, that the first log
\* matching the expected log has no value at
AbsentFields(logs, expected) ==
    {nj \in UNION {{<<n, j>> : j \in DOMAIN expected[n].requiredFields} : n \in DOMAIN expected} :
        \E i \in DOMAIN logs :
           /\ LogMatches(logs[i], expected[nj[1]])
           /\ \A h \in 1..(i - 1) : ~LogMatches(logs[h], expected[nj[1]])
           /\ getNestedValue(logs[i], expected[nj[1]].requiredFields[nj[2]]) = Undefined}

\* the logs runTest may be about to validate when the awaited query of the
\* k-th run is answered
LogsInHand(k) ==
    IF runs[k].phase = "polling"
    THEN ConversationBatches(k) \ {<<>>}
    ELSE {runs[k].logs \o byAction : byAction \in FallbackBatches(k)}

\* C16: a returned TestResult has passed = true exactly when its errors list
\* is empty; and a run that returns from an answered query returns the
\* verdict of the validation, with one error for every expected log that is
\* missing and one for every required field that is absent, never the
\* result of the catch block.
C16_PassedIffNoErrors ==
    /\ [](\A k \in DOMAIN runs :
            runs[k].phase = "returned" =>
               (runs[k].result.passed <=> Len(runs[k].result.errors) = 0))
    /\ [][\A k \in DOMAIN runs :
            (runs[k].phase \in {"polling", "fallback"} /\ runs'[k].phase = "returned") =>
               \/ runs'[k] = Caught(runs[k])
               \/ \E logs \in LogsInHand(k) :
                     /\ ~FromCatch(runs'[k].result)
                     /\ Len(runs'[k].result.errors) =
                           Cardinality(MissingLogs(logs, PathOf(k).expectedLogs))
                           + Cardinality(AbsentFields(logs, PathOf(k).expectedLogs))
                     /\ runs'[k].result.passed <=>
                           (MissingLogs(logs, PathOf(k).expectedLogs) = {}
                            /\ AbsentFields(logs, PathOf(k).expectedLogs) = {})]_vars

\* C16 witness: the first path of the catalog was answered with a log for
\* each expected log, none with a required field other than its
\* conversation id: nine logs found, two errors, not passed
C16_Witness ==
    /\ Len(runs) >= 1
    /\ runs[1].phase = "returned"
    /\ main.pathsToRun[1] = 1
    /\ ~runs[1].result.passed
    /\ ~FromCatch(runs[1].result)
    /\ Len(runs[1].result.errors) = 2
    /\ Len(runs[1].result.logsFound) = 9

\* the number of results with the given verdict
CountResults(results, verdict) ==
    Cardinality({n \in DOMAIN results : results[n].passed = verdict})

\* C17 as stated: the process exits with code 0 if and only if every
\* executed path passed, and with code 1 otherwise.
C17_ExitZeroIffExecutedPassed ==
    main.pc = "exited" =>
        /\ main.exitCode \in {0, 1}
        /\ main.exitCode = 0 <=> (\A n \in DOMAIN main.results : main.results[n].passed)

\* C17: the process exits with code 0 if and only if it has a result for
\* every selected path, at least one path was selected, and every result is
\* passed; in every other exit the code is 1.  The passed and failed counts
\* add up to the number of results.
C17_ExitZeroIffAllSelectedPassed ==
    main.pc = "exited" =>
        /\ main.exitCode \in {0, 1}
        /\ main.exitCode = 0 <=>
              /\ Len(main.pathsToRun) > 0
              /\ Len(main.results) = Len(main.pathsToRun)
              /\ \A n \in DOMAIN main.results : main.results[n].passed
        /\ CountResults(main.results, TRUE) + CountResults(main.results, FALSE)
              = Len(main.results)

\* C17 witness: the whole catalog was run, the first path failed and the
\* last passed, and the process has exited with code 1
C17_Witness ==
    /\ main.pc = "exited"
    /\ main.exitCode = 1
    /\ Len(main.results) = Len(testPaths)
    /\ ~main.results[1].passed
    /\ main.results[Len(testPaths)].passed

-----------------------------------------------------------------------------
(* Claims about the validators *)

\* two values are deeply equal: of the same type and, for objects, with the
\* same property names and deeply equal values under each name, in whatever
\* order the properties were written
RECURSIVE DeepEqual(_, _)
DeepEqual(x, y) ==
    /\ x.t = y.t
    /\ IF x.t = "object"
       THEN /\ OwnKeys(x) = OwnKeys(y)
            /\ \A k \in OwnKeys(x) : DeepEqual(Get(x, k), Get(y, k))
       ELSE x.v = y.v

\* the record violates the entry of the expectation map
EntryViolated(doc, e) ==
    LET actualValue == getNestedValue(doc, e.path)
    IN IF e.value = Undefined
       THEN actualValue # Undefined
       ELSE actualValue = Undefined \/ ~DeepEqual(actualValue, e.value)

\* the entries of the expectation map that the record violates
ViolatedEntries(doc, expected) ==
    {n \in DOMAIN expected : EntryViolated(doc, expected[n])}

\* C18 as stated: validateFields returns the empty error list exactly when
\* the record satisfies every entry of the expectation map, and otherwise
\* one error per violated entry, an entry with a defined expected value
\* being violated when the actual value is missing or not deeply equal to
\* the expected one.
C18_ErrorsIffEntryViolated ==
    call.fn = "validateFields" =>
        /\ Len(call.errors) = 0 <=> ViolatedEntries(call.doc, call.expected) = {}
        /\ Len(call.errors) = Cardinality(ViolatedEntries(call.doc, call.expected))
        /\ \A n \in ViolatedEntries(call.doc, call.expected) :
              \E j \in DOMAIN call.errors : call.errors[j].path = call.expected[n].path

\* the field at the path is present in the record: every segment but the
\* last names a property that holds an object, and the last segment names a
\* property
RECURSIVE Present(_, _)
Present(o, path) ==
    /\ Len(path) > 0
    /\ o.t = "object"
    /\ Head(path) \in OwnKeys(o)
    /\ Len(path) = 1 \/ Present(Get(o, Head(path)), Tail(path))

\* C19: absence law of validateFields: for an entry whose expected value is
\* undefined, an error is reported for its path exactly when the field at
\* that path is present in the record, whatever its value, null included.
\* The record is a JSON document, so none of its properties is undefined.
C19_AbsenceLaw ==
    call.fn = "validateFields" =>
        \A n \in DOMAIN call.expected :
            call.expected[n].value = Undefined =>
                ((\E j \in DOMAIN call.errors : call.errors[j].path = call.expected[n].path)
                    <=> Present(call.doc, call.expected[n].path))

\* C19 witness: validateFields({a: null}, {a: undefined}) has returned one
\* error: the field is present, with the value null
C19_Witness ==
    /\ call.fn = "validateFields"
    /\ call.doc = Obj(<<Entry("a", Null)>>)
    /\ call.expected = <<Expectation(<<"a">>, Undefined)>>
    /\ Len(call.errors) = 1
    /\ call.errors[1].kind = "expected undefined"

\* the value found at the last segment of the path when every segment is
\* there, and undefined when a segment is missing
RECURSIVE Resolved(_, _)
Resolved(o, path) ==
    IF ~Present(o, path)
    THEN Undefined
    ELSE IF Len(path) = 1
         THEN Get(o, path[1])
         ELSE Resolved(Get(o, Head(path)), Tail(path))

\* the values the lookup of the segments goes through, the record first
RECURSIVE Intermediates(_, _)
Intermediates(o, path) ==
    IF Len(path) = 0
    THEN {}
    ELSE {o} \cup Intermediates(Lookup(o, Head(path)), Tail(path))

\* C20: getNestedValue looks up the segments of the path one after another
\* and returns the value found at the last one; it returns undefined when a
\* segment is missing or when the record or an intermediate value is null or
\* undefined, and it never throws.  The two examples hold:
\* getNestedValue({a:{b:{c:1}}}, "a.b.c") is 1 and
\* getNestedValue({a:{}}, "a.b.c") is undefined.
C20_SequentialLookupNeverThrows ==
    call.fn = "getNestedValue" =>
        /\ call.value.t # "TypeError"
        /\ call.value = Resolved(call.doc, call.path)
        /\ (\E o \in Intermediates(call.doc, call.path) : o.t \in {"null", "undefined"})
              => call.value = Undefined
        /\ (/\ call.doc = Obj(<<Entry("a", Obj(<<Entry("b", Obj(<<Entry("c", Num("1"))>>))>>))>>)
            /\ call.path = <<"a", "b", "c">>) => call.value = Num("1")
        /\ (call.doc = Obj(<<Entry("a", Obj(<<>>))>>) /\ call.path = <<"a", "b", "c">>)
              => call.value = Undefined

\* C20 witness: getNestedValue({a: null, b: 1}, "a.b.c") has returned
\* undefined: the lookup went through null
C20_Witness ==
    /\ call.fn = "getNestedValue"
    /\ call.doc = Obj(<<Entry("a", Null), Entry("b", Num("1"))>>)
    /\ call.path = <<"a", "b", "c">>
    /\ call.value = Undefined

\* the elements of a sequence
Range(seq) == {seq[i] : i \in DOMAIN seq}

\* the sequence with its elements rearranged: the i-th is the p[i]-th
Permuted(seq, p) == [i \in DOMAIN seq |-> seq[p[i]]]

\* the sequence from its last element to its first
Reversed(seq) == [i \in DOMAIN seq |-> seq[Len(seq) + 1 - i]]

\* the logs of the list that match the expected log
MatchingLogs(logs, exp) == {i \in DOMAIN logs : LogMatches(logs[i], exp)}

\* C21: validateLogs is a membership check for each expected log on its
\* own, not a sequence check: the errors and the found actions of a list of
\* expected logs are those of its entries taken one by one; rearranging the
\* expected logs changes neither the verdict nor the set of errors; and
\* when no expected log is matched by two logs, rearranging the logs
\* changes nothing either, so no order among the logs is required. The
\* lists of the catalog's length are reversed, the short ones are rearranged
\* in every way.
C21_MembershipNotSequence ==
    call.fn = "validateLogs" =>
        LET logs == call.logs
            expected == call.expectedLogs
            result == call.validation
            SameVerdict(other) ==
                /\ Range(other.errors) = Range(result.errors)
                /\ Range(other.found) = Range(result.found)
                /\ Len(other.errors) = 0 <=> Len(result.errors) = 0
        IN /\ Range(result.errors) =
                 UNION {Range(validateLogs(logs, <<expected[n]>>).errors) : n \in DOMAIN expected}
           /\ Range(result.found) =
                 UNION {Range(validateLogs(logs, <<expected[n]>>).found) : n \in DOMAIN expected}
           /\ SameVerdict(validateLogs(logs, Reversed(expected)))
           /\ Len(expected) <= MaxExpected =>
                 \A p \in Permutations(DOMAIN expected) :
                    SameVerdict(validateLogs(logs, Permuted(expected, p)))
           /\ (\A n \in DOMAIN expected : Cardinality(MatchingLogs(logs, expected[n])) <= 1)
                 => /\ validateLogs(Reversed(logs), expected) = result
                    /\ Len(logs) <= MaxLogs =>
                          \A p \in Permutations(DOMAIN logs) :
                             validateLogs(Permuted(logs, p), expected) = result

\* C21 witness: two expected logs were validated against the two logs that
\* match them, the logs in the opposite order: both found, no error
C21_Witness ==
    /\ call.fn = "validateLogs"
    /\ call.expectedLogs = <<testPaths[1].expectedLogs[5], testPaths[1].expectedLogs[6]>>
    /\ call.logs = <<LogFor(testPaths[1].expectedLogs[6], TRUE),
                     LogFor(testPaths[1].expectedLogs[5], TRUE)>>
    /\ Len(call.validation.found) = 2
    /\ Len(call.validation.errors) = 0

\* main has computed pathsToRun
PathsSelected == main.pc \notin {"start", "prereqs", "checked"}

\* C22 as stated: the ids of the catalog are pairwise distinct, and a run
\* started with --path=N, whatever N, has at most one path to run.
C22_SelectionRunsAtMostOne ==
    /\ \A i \in DOMAIN testPaths, j \in DOMAIN testPaths :
          testPaths[i].id = testPaths[j].id => i = j
    /\ (PathsSelected /\ main.selectedPath.set) => Len(main.pathsToRun) <= 1

\* C23 as stated: the catalog covers the twelve documented paths: a run
\* started with --path=N, N from 1 to 12, has exactly the path N to run, and
\* a run started without --path has twelve paths to run.
C23_TwelvePathsCovered ==
    PathsSelected =>
        /\ (main.selectedPath.set /\ main.selectedPath.n \in 1..12)
              => main.pathsToRun = <<main.selectedPath.n>>
        /\ ~main.selectedPath.set => Len(main.pathsToRun) = 12

\* C24 as stated: the logs of path 1 are validated without an error, so
\* that the path is reported as passed, only if one of them is a log of
\* evidence_response_sent whose oots.response.result is preview_requested.
C24_PassedOnlyIfPreviewRequested ==
    (/\ call.fn = "validateLogs"
     /\ call.expectedLogs = testPaths[1].expectedLogs
     /\ Len(call.validation.errors) = 0)
        => \E i \in DOMAIN call.logs :
              /\ getNestedValue(call.logs[i], <<"event", "action">>)
                    = Str("evidence_response_sent")
              /\ getNestedValue(call.logs[i], <<"oots", "response", "result">>)
                    = Str("preview_requested")

\* the log store, both gateways and the simulator answered the checks
RequiredAvailable(env) == env.es /\ env.red /\ env.blue /\ env.mock

\* C25: when the log store, a gateway or the simulator is unavailable and the
\* prerequisite checks are not skipped, the process exits with code 1 from
\* the checks: no path was selected, armed or triggered and there is no
\* result.  When the four of them are available, main goes on to the paths
\* whether or not the Bridge answered its health check.
C25_PrerequisiteFailureBeforeExecution ==
    /\ [](main.prereqs.done => main.prereqs.ok = RequiredAvailable(main.prereqs.env))
    /\ []((main.pc = "exited" /\ main.prereqs.done /\ ~RequiredAvailable(main.prereqs.env)) =>
             /\ main.exitCode = 1
             /\ runs = <<>>
             /\ main.pathsToRun = <<>>
             /\ main.results = <<>>
             /\ ctl.op # "setBehavior"
             /\ inv.phase = "none")
    /\ [][main.pc = "checked" =>
             IF RequiredAvailable(main.prereqs.env)
             THEN /\ main'.pathsToRun = SelectPaths(main.selectedPath)
                  /\ main'.pc = IF Len(main'.pathsToRun) > 0 THEN "arm" ELSE "exited"
             ELSE /\ main'.pc = "exited"
                  /\ main'.exitCode = 1
                  /\ runs' = <<>>]_vars

\* C25 witness: the simulator alone did not answer its check, and the
\* process has exited with code 1 without a path to run
C25_Witness ==
    /\ main.pc = "exited"
    /\ main.exitCode = 1
    /\ main.prereqs.done
    /\ main.prereqs.env.es /\ main.prereqs.env.red /\ main.prereqs.env.blue
    /\ ~main.prereqs.env.mock
    /\ runs = <<>>

\* the conversation id of a log
ConversationOf(log) == getNestedValue(log, <<"oots", "conversation", "id">>)

\* C26 as stated: the logs a run gathers for its validation, and so the
\* logs that decide its verdict, all belong to the conversation id the run
\* generated, never to one of another run; and a run starts from the same
\* state whatever the runs before it did.
C26_VerdictFromOwnConversationOnly ==
    /\ [](\A k \in DOMAIN runs :
            \A i \in DOMAIN runs[k].logs :
                ConversationOf(runs[k].logs[i]) = Str(ConversationIds[k]))
    /\ [][\A k \in DOMAIN runs :
            (runs[k].phase = "pending" /\ runs'[k].phase # "pending")
                => runs'[k] = BeginRun]_vars

\* the phases of a run in its trigger and in its wait
TriggerPhases == {"trigger", "callback"}

\* the phases of a run in its query step
QueryPhases == {"polling", "pollSleep", "fallback"}

\* C27: every run goes through arming, trigger, wait, queries and validation
\* in this order.  A run begins its trigger in the step in which the mock
\* answers the arming request; it waits only when the last call of its
\* trigger has settled; it has sent no query and gathered no log before the
\* sleep of the path's waitTime is over; and it returns the verdict of a
\* validation only from its query step.  From the trigger it leaves the
\* order only through the catch block, which returns its result at once,
\* and so it does from a query.
C27_FixedStepOrder ==
    /\ [](\A k \in DOMAIN runs :
            /\ runs[k].phase \in TriggerPhases \cup {"pending", "waiting"} =>
                  (runs[k].waited = 0 /\ runs[k].elapsed = 0 /\ runs[k].fb = 0
                   /\ runs[k].logs = <<>>)
            /\ runs[k].phase \in QueryPhases =>
                  (runs[k].waited = PathOf(k).waitTime /\ runs[k].waited > 0))
    /\ [][\A k \in DOMAIN runs :
            runs'[k] # runs[k] =>
               CASE runs[k].phase = "pending" ->
                       /\ runs'[k].phase = "trigger"
                       /\ ctl'.op = "setBehavior" /\ ctl'.status = 200
                 [] runs[k].phase \in TriggerPhases ->
                       \/ runs'[k].phase \in TriggerPhases
                       \/ /\ runs'[k].phase = "waiting"
                          /\ runs[k].step = Len(PathOf(k).trigger)
                       \/ /\ runs'[k] = Caught(runs[k])
                          /\ FromCatch(runs'[k].result)
                 [] runs[k].phase = "waiting" -> runs'[k].phase = "polling"
                 [] runs[k].phase \in QueryPhases ->
                       \/ runs'[k].phase \in QueryPhases
                       \/ runs'[k].phase = "returned"
                 [] runs[k].phase = "returned" -> runs'[k].phase = "done"
                 [] OTHER -> FALSE]_vars

\* C27 witness: the first path of the catalog has slept its 20000 ms and its
\* first query is under way
C27_Witness ==
    /\ Len(runs) >= 1
    /\ main.pathsToRun[1] = 1
    /\ runs[1].phase = "polling"
    /\ runs[1].waited = 20000
    /\ runs[1].elapsed = 0

\* the log has the action of the expected log, and its logger and its
\* outcome when the expected log names them
EntryMatches(log, exp) ==
    /\ Resolved(log, <<"event", "action">>) = Str(exp.eventAction)
    /\ exp.logger # NULL => Resolved(log, <<"log", "logger">>) = Str(exp.logger)
    /\ exp.outcome # NULL => Resolved(log, <<"event", "outcome">>) = Str(exp.outcome)

\* the place of the first log that matches the expected log, 0 when none does
FirstMatch(logs, exp) ==
    IF \E i \in DOMAIN logs : EntryMatches(logs[i], exp)
    THEN CHOOSE i \in DOMAIN logs :
            /\ EntryMatches(logs[i], exp)
            /\ \A h \in 1..(i - 1) : ~EntryMatches(logs[h], exp)
    ELSE 0

\* the errors due for one expected log: one for each required field that is
\* undefined in the first matching log, or one for the log when there is no
\* match and the expected log is not optional
ErrorsDue(logs, exp) ==
    LET i == FirstMatch(logs, exp)
    IN IF i > 0
       THEN {[kind |-> "missing required field", eventAction |-> exp.eventAction,
              field |-> exp.requiredFields[j]] :
                j \in {jj \in DOMAIN exp.requiredFields :
                          Resolved(logs[i], exp.requiredFields[jj]) = Undefined}}
       ELSE IF exp.optional
            THEN {}
            ELSE {[kind |-> "Missing log", eventAction |-> exp.eventAction,
                   field |-> <<>>]}

\* C28: validateLogs takes, for each expected log, the first log with its
\* action and, when named, its logger and outcome.  The found list holds the
\* actions of the expected logs that have such a log, in their order; the
\* errors are, for each expected log, one per required field undefined in
\* that first log, or one missing-log error when no log matches and the
\* expected log is not optional, and no other.  So there is no error exactly
\* when every expected log that is not optional has a matching log and the
\* first matching log of every expected log has all its required fields.
C28_ValidateLogsPerEntry ==
    call.fn = "validateLogs" =>
        LET logs == call.logs
            expected == call.expectedLogs
            matched == SelectSeq(expected, LAMBDA exp : FirstMatch(logs, exp) > 0)
        IN /\ call.validation.found = [n \in DOMAIN matched |-> matched[n].eventAction]
           /\ Range(call.validation.errors) =
                 UNION {ErrorsDue(logs, expected[n]) : n \in DOMAIN expected}
           /\ Len(call.validation.errors) =
                 Cardinality(UNION {ErrorsDue(logs, expected[n]) : n \in DOMAIN expected})
           /\ Len(call.validation.errors) = 0 <=>
                 \A n \in DOMAIN expected :
                    LET i == FirstMatch(logs, expected[n])
                    IN /\ ~expected[n].optional => i > 0
                       /\ i > 0 => \A j \in DOMAIN expected[n].requiredFields :
                                      Resolved(logs[i], expected[n].requiredFields[j])
                                         # Undefined

\* C28 witness: evidence_request_received with the outcome success was
\* looked for in two logs of that action, the first with the outcome
\* failure, the second with the outcome success and without the required
\* fields: the action is found and two fields are reported
C28_Witness ==
    /\ call.fn = "validateLogs"
    /\ call.expectedLogs = <<testPaths[1].expectedLogs[5]>>
    /\ Len(call.logs) = 2
    /\ Resolved(call.logs[1], <<"event", "outcome">>) = Str("failure")
    /\ call.logs[2] = LogFor(testPaths[1].expectedLogs[5], FALSE)
    /\ call.validation.found = <<"evidence_request_received">>
    /\ Len(call.validation.errors) = 2

\* C29 as stated: a run makes fallback queries only when its conversation
\* query has returned no log within the budget; it then makes one fallback
\* query for every expected log of its path, the n-th for the n-th expected
\* log, and validates the logs of all of them together.
C29_FallbackQueryPerExpectedLog ==
    /\ [](\A k \in DOMAIN runs :
            runs[k].phase = "fallback" => runs[k].fb \in DOMAIN PathOf(k).expectedLogs)
    /\ [][\A k \in DOMAIN runs :
            /\ (runs[k].phase # "fallback" /\ runs'[k].phase = "fallback") =>
                  /\ runs[k].phase = "pollSleep"
                  /\ runs[k].elapsed + PollSleepMs >= PollWaitMs
                  /\ runs'[k].fb = 1
                  /\ runs'[k].logs = <<>>
            /\ (runs[k].phase = "fallback" /\ runs'[k].phase = "fallback") =>
                  /\ runs'[k].fb = runs[k].fb + 1
                  /\ \E byAction \in FallbackBatches(k) :
                        runs'[k].logs = runs[k].logs \o byAction
            /\ (runs[k].phase = "fallback" /\ runs'[k].phase = "returned"
                /\ ~FromCatch(runs'[k].result)) =>
                  /\ runs[k].fb = Len(PathOf(k).expectedLogs)
                  /\ \E byAction \in FallbackBatches(k) :
                        runs'[k] = Validated(runs[k], runs[k].logs \o byAction, PathOf(k))]_vars

\* the k-th run awaits the answer of the GET /emrex of its trigger
AwaitsCallback(k) == runs[k].phase = "callback" /\ inv.sessionId = ConversationIds[k]

\* the k-th run awaits an invocation that the mock has left hanging
TriggerHangs(k) == AwaitsCallback(k) /\ inv.phase = "hung"

\* C30: the runner puts no deadline on a trigger. While the GET /emrex that a
\* run awaits is unanswered, neither the run nor main moves; when the mock has
\* left the invocation hanging (timeout mode), that stays so for ever: the run
\* stays in its trigger, main has no TestResult for it, and no later path has
\* been or is started.
C30_NoDeadlineOnTrigger ==
    /\ [](\A k \in DOMAIN runs :
            AwaitsCallback(k) =>
               /\ main.pc = "run" /\ main.i = k
               /\ Len(main.results) = k - 1
               /\ runs[k].result = NoResult
               /\ \A j \in DOMAIN runs : j > k => runs[j] = NoRun)
    /\ [][\A k \in DOMAIN runs :
            /\ (AwaitsCallback(k) /\ inv.phase # "replied") =>
                  (runs' = runs /\ main' = main)
            /\ TriggerHangs(k) => (inv' = inv /\ TriggerHangs(k)')]_vars

\* C30 witness: a run between two others awaits an invocation that hangs
C30_Witness ==
    \E k \in DOMAIN runs :
       /\ 1 < k /\ k < Len(runs)
       /\ TriggerHangs(k)
       /\ behavior = "timeout"
       /\ Len(main.results) = k - 1
       /\ runs[k + 1] = NoRun

\* main has printed the summary: it has left its loop with a TestResult for
\* every path it selected, and has exited
SummaryPrinted ==
    /\ main.pc = "exited"
    /\ Len(main.pathsToRun) > 0
    /\ Len(main.results) = Len(main.pathsToRun)

\* main has passed or skipped the prerequisites, has selected at least one
\* path and is about to arm the mock for the first
LoopEntered == main.pc = "arm" /\ main.i = 1

\* C31 as stated: when every request of the runner is answered or fails,
\* a runner that has entered its loop gets a TestResult for every selected
\* path of the catalog, prints its summary and exits.
C31_EveryRunReturnsAndSummaryPrinted == LoopEntered ~> SummaryPrinted

\* C32 as stated: however the changes of the mode fall among the requests
\* in flight, every callback the mock issues is a row of the mode table: it
\* is built for one of the seven modes that answer, never for timeout, and
\* with the return code NCP_OK it carries a payload.
C32_CallbacksMatchModeTable ==
    \A k \in 1..Len(inv.posts) :
       LET p == inv.posts[k]
       IN /\ p.behavior \in validModes \ {"timeout"}
          /\ p.returnCode = "NCP_OK" => p.elmo # NoElmo

\* C33: the mock starts with the mode success and the delay 0, and whatever
\* requests it has served, with whatever arguments, its mode is one of the
\* eight known modes.
C33_ModeAlwaysKnown ==
    /\ behavior = "success"
    /\ responseDelay = 0
    /\ [](behavior \in validModes /\ Cardinality(validModes) = 8)

\* C33 witness: a mode other than the first was set, an invocation was
\* served, and then a request with an unknown mode was answered
C33_Witness ==
    /\ behavior = "cancel"
    /\ inv.phase = "replied"
    /\ ctl.op = "setBehavior"
    /\ ctl.mode = "bogus"

\* C34: setBehavior sets the mode and the delay each on its own: the delay
\* becomes the delay of the request when that is a number, whether or not the
\* mode of the request is known, and stays as it was otherwise; the mode
\* becomes the mode of the request when that is a known mode, and stays as
\* it was when the request has no mode or an unknown one.
C34_ModeAndDelayIndependent ==
    [][ctl'.op = "setBehavior" =>
          /\ responseDelay' = IF ctl'.delay.num THEN ctl'.delay.val ELSE responseDelay
          /\ behavior' = IF ctl'.mode # NULL /\ ctl'.mode \in validModes
                         THEN ctl'.mode
                         ELSE behavior]_vars

\* C34 witness: a request with an unknown mode and no numeric delay was
\* answered, and the mode error and the delay 250 set before it are in place
C34_Witness ==
    /\ ctl.op = "setBehavior"
    /\ ctl.mode = "bogus"
    /\ ~ctl.delay.num
    /\ behavior = "error"
    /\ responseDelay = 250

\* C35 as stated: the verdict and the errors of validateLogs do not depend
\* on the order of the logs: the same logs in any other order give the same
\* errors, and so the same verdict.
C35_LogOrderIrrelevant ==
    (call.fn = "validateLogs" /\ Len(call.logs) <= MaxLogs) =>
        \A p \in Permutations(DOMAIN call.logs) :
           LET other == validateLogs(Permuted(call.logs, p), call.expectedLogs)
           IN /\ other.errors = call.validation.errors
              /\ Len(other.errors) = 0 <=> Len(call.validation.errors) = 0

SeenConversations(w) == {w.seen[n].conversationId : n \in DOMAIN w.seen}

\* what a step of waitForResponse does with an error, after the sleep, with
\* a message of the requested conversation, and when it returns
ToleratingStep ==
    /\ wait'.caught > wait.caught =>
          /\ wait.pc \in {"list", "retrieve"}
          /\ wait'.pc = "sleep"
          /\ wait'.caught = wait.caught + 1
    /\ (wait.pc = "sleep" /\ wait' # wait) =>
          /\ wait'.elapsed = wait.elapsed + PollIntervalMs
          /\ wait'.pc = IF wait'.elapsed < wait.timeoutMs THEN "list" ELSE "returned"
          /\ wait'.result = NULL
    /\ (/\ Len(wait'.seen) > Len(wait.seen)
        /\ wait'.seen[Len(wait'.seen)].conversationId = wait.conversationId) =>
          /\ wait'.pc = "returned"
          /\ wait'.result = wait'.seen[Len(wait'.seen)].id
    /\ (wait.pc # "returned" /\ wait'.pc = "returned" /\ wait'.result # NULL) =>
          /\ wait.pc = "retrieve"
          /\ wait'.result = Head(wait.msgs)
          /\ HeaderConversation(wait'.result) = wait.conversationId
          /\ wait.conversationId \notin SeenConversations(wait)
    /\ (wait.pc # "returned" /\ wait'.pc = "returned" /\ wait'.result = NULL) =>
          /\ wait.pc \in {"idle", "sleep"}
          /\ wait'.elapsed >= wait'.timeoutMs

\* C37: waitForResponse tolerates errors while it polls. No error of a
\* listing or of a retrieval leaves the function: it is dropped and the
\* sleep of the interval follows; after the sleep the next round starts
\* while the timeout has not elapsed. A message is returned exactly when its
\* header has the requested conversation id, and it is the first such
\* message retrieved; null is returned only by the loop test, when the
\* timeout has elapsed.
C37_PollingToleratesErrors ==
    /\ [](wait.pc # "thrown")
    /\ [][ToleratingStep]_vars

\* C37 witness: two errors were dropped, and in a later round the second
\* message retrieved had the requested conversation id and was returned
C37_Witness ==
    /\ wait.pc = "returned"
    /\ wait.caught = 2
    /\ Len(wait.seen) = 2
    /\ wait.seen[1].conversationId # wait.conversationId
    /\ wait.result = wait.seen[2].id
    /\ wait.elapsed >= 2 * PollIntervalMs

====
